---- MODULE Spec2Model ----
(***************************************************************************)
(* A model of the shepherd command line client: the session filter engine  *)
(* (cli/sessions.py), the Langfuse observation tree reconstruction         *)
(* (cli/langfuse.py), the session commands that call them and the          *)
(* provider routing of the top-level commands (cli/main.py).               *)
(*                                                                         *)
(* Python values are modelled as follows.  A str is a sequence of          *)
(* one-character strings.  A value whose type is Optional or Any is a      *)
(* tagged record [t |-> tag, v |-> value]; a dict is a function whose      *)
(* domain is its key set; a list is a sequence.                            *)
(***************************************************************************)
EXTENDS Integers, Sequences, FiniteSets, TLC

VARIABLES
    response,      \* SessionsResponse handed to _filter_sessions
    criteria,      \* keyword arguments of the _filter_sessions call
    filtered,      \* SessionsResponse returned by _filter_sessions
    fpc,           \* position of the filter run: "idle" | "input" | "filtered"
    observations,  \* trace.observations handed to _build_observation_tree
    tree,          \* children of the rich Tree handed to _build_observation_tree
    tpc,           \* position of the tree build: "idle" | "input" | "adding" | "built"
    pending,       \* add_node calls still to be made: the record and the path of its parent_tree
    evaluation,    \* argument of _eval_is_failed
    eval_failed,   \* value returned by _eval_is_failed
    epc,           \* position of the _eval_is_failed call: "idle" | "input" | "returned"
    args,          \* the command of one invocation and its options
    parsed,        \* search: parsed_labels, after_ts and before_ts, None before parsing
    cpc,           \* position of the command: "idle" | "route" | "parse" | "start" | "fetch" |
                   \*   "filter" | "limit" | "render" | "close" | "exit"
    client,        \* the client of the with statement: "none" | "open" | "closed"
    fetches,       \* calls of client.list_sessions / client.get_session so far
    filter_runs,   \* calls of _filter_sessions so far
    fetched,       \* the SessionsResponse the client returned
    shown,         \* the SessionsResponse on its way to the renderer
    printed,       \* what the command printed on the console, in order
    exit_code,     \* exit code of the command, None while it runs
    label_input,   \* argument of _parse_label
    label_result,  \* what _parse_label returned or raised
    lpc,           \* position of the _parse_label call: "idle" | "input" | "returned"
    default_provider, \* config.default_provider read by _get_provider
    delegated      \* provider commands the top-level command has called, in order

filterVars == <<response, criteria, filtered, fpc>>
treeVars == <<observations, tree, tpc, pending>>
evalVars == <<evaluation, eval_failed, epc>>
cmdVars == <<args, parsed, cpc, client, fetches, filter_runs, fetched, shown, printed, exit_code>>
labelVars == <<label_input, label_result, lpc>>
mainVars == <<default_provider, delegated>>
vars == <<filterVars, treeVars, evalVars, cmdVars, labelVars, mainVars>>

(***************************************************************************)
(* Bounds of the model.                                                    *)
(***************************************************************************)
MaxSessions == 2      \* sessions in a response
MaxEvents == 1        \* events plus function events in a response
MaxSupplied == 2      \* criteria supplied to one _filter_sessions call
MaxObs == 3           \* entries of an observation list
MaxLimit == 3         \* largest value given to --limit
MaxCritEvents == 2    \* events plus function events in a response of a one-criterion run
MaxLabelLen == 4      \* characters of a label string handed to _parse_label

(***************************************************************************)
(* Python values.                                                          *)
(***************************************************************************)
None == [t |-> "none"]
Str(s) == [t |-> "str", v |-> s]
Bool(b) == [t |-> "bool", v |-> b]
Num(n) == [t |-> "int", v |-> n]
Dict(d) == [t |-> "dict", v |-> d]
EmptyDict == <<>>

Range(f) == {f[x] : x \in DOMAIN f}

\* bool(value): Python truth value testing
Truthy(x) ==
    CASE x.t = "none" -> FALSE
      [] x.t = "bool" -> x.v
      [] x.t = "int" -> x.v /= 0
      [] x.t = "str" -> x.v /= <<>>
      [] x.t = "list" -> x.v /= <<>>
      [] x.t = "dict" -> DOMAIN x.v /= {}

UpperChars == <<"A","B","C","D","E","F","G","H","I","J","K","L","M",
                "N","O","P","Q","R","S","T","U","V","W","X","Y","Z">>
LowerChars == <<"a","b","c","d","e","f","g","h","i","j","k","l","m",
                "n","o","p","q","r","s","t","u","v","w","x","y","z">>

\* the lower case letter of each upper case letter
LowerOf == [c \in Range(UpperChars) |-> LowerChars[CHOOSE i \in DOMAIN UpperChars : UpperChars[i] = c]]

LowerChar(c) == IF c \in DOMAIN LowerOf THEN LowerOf[c] ELSE c

\* str.lower()
Lower(s) == [i \in 1..Len(s) |-> LowerChar(s[i])]

\* needle in hay, for two str
Contains(needle, hay) ==
    \E i \in 0..(Len(hay) - Len(needle)) :
        SubSeq(hay, i + 1, i + Len(needle)) = needle

DigitChars == <<"0","1","2","3","4","5","6","7","8","9">>

RECURSIVE NatStr(_)
NatStr(n) ==
    IF n < 10 THEN <<DigitChars[n + 1]>>
    ELSE NatStr(n \div 10) \o <<DigitChars[(n % 10) + 1]>>

\* str(value)
PyStr(x) ==
    CASE x.t = "str" -> x.v
      [] x.t = "none" -> <<"N","o","n","e">>
      [] x.t = "bool" -> IF x.v THEN <<"T","r","u","e">> ELSE <<"F","a","l","s","e">>
      [] x.t = "int" -> IF x.v < 0 THEN <<"-">> \o NatStr(-x.v) ELSE NatStr(x.v)

\* dict.get(key, default)
DictGet(d, key, default) == IF key \in DOMAIN d THEN d[key] ELSE default

(***************************************************************************)
(* The session filter engine, cli/sessions.py.                             *)
(*   Session       [id, name, started_at, labels, meta]                    *)
(*   Event         [session_id, provider, request, error, evaluations]     *)
(*   FunctionEvent [session_id, provider, name, module, error, evaluations]*)
(***************************************************************************)
\* Mutation of _session_matches_query: the keys of labels and meta are searched
\* as well as their values.
_session_matches_query_keys(session, query) ==
    LET query_lower == Lower(query)
    IN  \/ Contains(query_lower, Lower(session.id))
        \/ Contains(query_lower, Lower(session.name))
        \/ \E value \in Range(session.labels) : Contains(query_lower, Lower(PyStr(value)))
        \/ \E value \in Range(session.meta) : Contains(query_lower, Lower(PyStr(value)))
        \/ \E key \in DOMAIN session.labels : Contains(query_lower, Lower(key))
        \/ \E key \in DOMAIN session.meta : Contains(query_lower, Lower(key))

_session_matches_query(session, query) ==
    LET query_lower == Lower(query)
    IN  \/ Contains(query_lower, Lower(session.id))
        \/ Contains(query_lower, Lower(session.name))
        \/ \E value \in Range(session.labels) : Contains(query_lower, Lower(PyStr(value)))
        \/ \E value \in Range(session.meta) : Contains(query_lower, Lower(PyStr(value)))

\* Mutation of _session_matches_labels: the values are compared ignoring case.
_session_matches_labels_lower(session, labels) ==
    \A i \in DOMAIN labels :
        LET key == labels[i][1]
            value == labels[i][2]
        IN  /\ key \in DOMAIN session.labels
            /\ Lower(PyStr(session.labels[key])) = Lower(value)

_session_matches_labels(session, labels) ==
    \A i \in DOMAIN labels :
        LET key == labels[i][1]
            value == labels[i][2]
        IN  /\ key \in DOMAIN session.labels
            /\ session.labels[key] = Str(value)

\* Mutation of _session_has_provider: the provider name only has to contain
\* the filter.
_session_has_provider_substring(session, events, function_events, provider) ==
    LET provider_lower == Lower(provider)
    IN  \/ \E i \in DOMAIN events :
              /\ events[i].session_id = session.id
              /\ Contains(provider_lower, Lower(events[i].provider))
        \/ \E i \in DOMAIN function_events :
              /\ function_events[i].session_id = session.id
              /\ Contains(provider_lower, Lower(function_events[i].provider))

_session_has_provider(session, events, function_events, provider) ==
    LET provider_lower == Lower(provider)
    IN  \/ \E i \in DOMAIN events :
              /\ events[i].session_id = session.id
              /\ Lower(events[i].provider) = provider_lower
        \/ \E i \in DOMAIN function_events :
              /\ function_events[i].session_id = session.id
              /\ Lower(function_events[i].provider) = provider_lower

\* Mutation of _session_has_model: the test of event.session_id is missing.
_session_has_model_any_session(session, events, model) ==
    LET model_lower == Lower(model)
    IN  \E i \in DOMAIN events :
            /\ Truthy(events[i].request)
            /\ LET event_model == DictGet(events[i].request.v, "model", Str(<<>>))
               IN  Contains(model_lower, Lower(PyStr(event_model)))

_session_has_model(session, events, model) ==
    LET model_lower == Lower(model)
    IN  \E i \in DOMAIN events :
            /\ events[i].session_id = session.id
            /\ Truthy(events[i].request)
            /\ LET event_model == DictGet(events[i].request.v, "model", Str(<<>>))
               IN  Contains(model_lower, Lower(PyStr(event_model)))

\* Mutation of _session_has_errors: the loop over function_events is missing.
_session_has_errors_events_only(session, events, function_events) ==
    \E i \in DOMAIN events :
        events[i].session_id = session.id /\ Truthy(events[i].error)

_session_has_errors(session, events, function_events) ==
    \/ \E i \in DOMAIN events :
          events[i].session_id = session.id /\ Truthy(events[i].error)
    \/ \E i \in DOMAIN function_events :
          function_events[i].session_id = session.id /\ Truthy(function_events[i].error)

\* Mutation of _session_has_function: event.module is not searched.
_session_has_function_name_only(session, function_events, function_name) ==
    LET name_lower == Lower(function_name)
    IN  \E i \in DOMAIN function_events :
            /\ function_events[i].session_id = session.id
            /\ Truthy(function_events[i].name)
            /\ Contains(name_lower, Lower(function_events[i].name.v))

_session_has_function(session, function_events, function_name) ==
    LET name_lower == Lower(function_name)
    IN  \E i \in DOMAIN function_events :
            /\ function_events[i].session_id = session.id
            /\ \/ /\ Truthy(function_events[i].name)
                  /\ Contains(name_lower, Lower(function_events[i].name.v))
               \/ /\ Truthy(function_events[i].module)
                  /\ Contains(name_lower, Lower(function_events[i].module.v))

FailedStatuses ==
    { <<"f","a","i","l","e","d">>, <<"f","a","i","l">>, <<"e","r","r","o","r">> }

\* Mutation of _eval_is_failed: the fields are compared with `== False`, which
\* the integer 0 satisfies too, instead of `is False`.
_eval_is_failed_eq(e) ==
    IF e.t /= "dict" THEN FALSE
    ELSE \/ DictGet(e.v, "passed", None) \in {Bool(FALSE), Num(0)}
         \/ DictGet(e.v, "result", None) \in {Bool(FALSE), Num(0)}
         \/ Lower(PyStr(DictGet(e.v, "status", Str(<<>>)))) \in FailedStatuses
         \/ DictGet(e.v, "success", None) \in {Bool(FALSE), Num(0)}

_eval_is_failed(e) ==
    IF e.t /= "dict" THEN FALSE
    ELSE \/ DictGet(e.v, "passed", None) = Bool(FALSE)
         \/ DictGet(e.v, "result", None) = Bool(FALSE)
         \/ Lower(PyStr(DictGet(e.v, "status", Str(<<>>)))) \in FailedStatuses
         \/ DictGet(e.v, "success", None) = Bool(FALSE)

_session_has_failed_evals(session, events, function_events) ==
    \/ \E i \in DOMAIN events :
          /\ events[i].session_id = session.id
          /\ \E j \in DOMAIN events[i].evaluations :
                _eval_is_failed(events[i].evaluations[j])
    \/ \E i \in DOMAIN function_events :
          /\ function_events[i].session_id = session.id
          /\ \E j \in DOMAIN function_events[i].evaluations :
                _eval_is_failed(function_events[i].evaluations[j])

\* Mutation of SessionKept: the criteria are OR-ed, a session is kept when it
\* passes any one of the supplied criteria.
SessionKeptAny(session, resp, c) ==
    \/ (~Truthy(c.query) /\ ~Truthy(c.labels) /\ ~Truthy(c.provider) /\ ~Truthy(c.model)
        /\ ~Truthy(c.function) /\ ~Truthy(c.after) /\ ~Truthy(c.before)
        /\ ~c.has_errors /\ ~c.evals_failed)
    \/ (Truthy(c.query) /\ _session_matches_query(session, c.query.v))
    \/ (Truthy(c.labels) /\ _session_matches_labels(session, c.labels.v))
    \/ (Truthy(c.provider) /\ _session_has_provider(
              session, resp.events, resp.function_events, c.provider.v))
    \/ (Truthy(c.model) /\ _session_has_model(session, resp.events, c.model.v))
    \/ (Truthy(c.function) /\ _session_has_function(
              session, resp.function_events, c.function.v))
    \/ (Truthy(c.after) /\ session.started_at >= c.after.v)
    \/ (Truthy(c.before) /\ session.started_at <= c.before.v)
    \/ (c.has_errors /\ _session_has_errors(session, resp.events, resp.function_events))
    \/ (c.evals_failed /\ _session_has_failed_evals(
              session, resp.events, resp.function_events))

\* Mutation of SessionKept: the tests form one if/elif chain, so only the first
\* supplied criterion is evaluated.
SessionKeptFirstOnly(session, resp, c) ==
    IF Truthy(c.query) THEN _session_matches_query(session, c.query.v)
    ELSE IF Truthy(c.labels) THEN _session_matches_labels(session, c.labels.v)
    ELSE IF Truthy(c.provider)
         THEN _session_has_provider(session, resp.events, resp.function_events, c.provider.v)
    ELSE IF Truthy(c.model) THEN _session_has_model(session, resp.events, c.model.v)
    ELSE IF Truthy(c.function)
         THEN _session_has_function(session, resp.function_events, c.function.v)
    ELSE IF Truthy(c.after) THEN session.started_at >= c.after.v
    ELSE IF Truthy(c.before) THEN session.started_at <= c.before.v
    ELSE IF c.has_errors
         THEN _session_has_errors(session, resp.events, resp.function_events)
    ELSE IF c.evals_failed
         THEN _session_has_failed_evals(session, resp.events, resp.function_events)
    ELSE TRUE

\* The body of the loop over response.sessions, for one session: TRUE when no
\* `continue` is taken and the session is appended to filtered_sessions.
\* c holds the keyword arguments of the call.
SessionKept(session, resp, c) ==
    /\ ~(Truthy(c.query) /\ ~_session_matches_query(session, c.query.v))
    /\ ~(Truthy(c.labels) /\ ~_session_matches_labels(session, c.labels.v))
    /\ ~(Truthy(c.provider) /\ ~_session_has_provider(
              session, resp.events, resp.function_events, c.provider.v))
    /\ ~(Truthy(c.model) /\ ~_session_has_model(session, resp.events, c.model.v))
    /\ ~(Truthy(c.function) /\ ~_session_has_function(
              session, resp.function_events, c.function.v))
    /\ ~(Truthy(c.after) /\ session.started_at < c.after.v)
    /\ ~(Truthy(c.before) /\ session.started_at > c.before.v)
    /\ ~(c.has_errors /\ ~_session_has_errors(session, resp.events, resp.function_events))
    /\ ~(c.evals_failed /\ ~_session_has_failed_evals(
              session, resp.events, resp.function_events))

\* Mutation of BySessionIds: the comprehension has no condition.
BySessionIdsUnconditional(seq, session_ids) == seq

\* [e for e in seq if e.session_id in session_ids]
RECURSIVE BySessionIds(_, _)
BySessionIds(seq, session_ids) ==
    IF seq = <<>> THEN <<>>
    ELSE (IF Head(seq).session_id \in session_ids THEN <<Head(seq)>> ELSE <<>>)
         \o BySessionIds(Tail(seq), session_ids)

\* the list built by the loop: the sessions kept, in input order
RECURSIVE KeptSessions(_, _, _)
KeptSessions(sessions, resp, c) ==
    IF sessions = <<>> THEN <<>>
    ELSE (IF SessionKept(Head(sessions), resp, c) THEN <<Head(sessions)>> ELSE <<>>)
         \o KeptSessions(Tail(sessions), resp, c)

SessionIds(sessions) == {sessions[i].id : i \in DOMAIN sessions}

\* Mutation of _filter_sessions: the events and the function events are left
\* out of the response returned.
_filter_sessions_without_events(resp, c) ==
    LET filtered_sessions == KeptSessions(resp.sessions, resp, c)
    IN  [ sessions |-> filtered_sessions,
          events |-> <<>>,
          function_events |-> <<>>,
          trace_tree |-> resp.trace_tree,
          enh_prompt_traces |-> resp.enh_prompt_traces,
          generated_at |-> resp.generated_at,
          version |-> resp.version ]

\* Mutation of _filter_sessions: session_ids is taken from the sessions of the
\* input instead of the sessions kept.
_filter_sessions_input_ids(resp, c) ==
    LET filtered_sessions == KeptSessions(resp.sessions, resp, c)
        session_ids == SessionIds(resp.sessions)
    IN  [ sessions |-> filtered_sessions,
          events |-> BySessionIds(resp.events, session_ids),
          function_events |-> BySessionIds(resp.function_events, session_ids),
          trace_tree |-> resp.trace_tree,
          enh_prompt_traces |-> resp.enh_prompt_traces,
          generated_at |-> resp.generated_at,
          version |-> resp.version ]

\* Mutation of _filter_sessions: the trace tree and the enhanced prompt traces
\* are narrowed to the kept sessions like the events.
_filter_sessions_narrow_traces(resp, c) ==
    LET filtered_sessions == KeptSessions(resp.sessions, resp, c)
        session_ids == SessionIds(filtered_sessions)
    IN  [ sessions |-> filtered_sessions,
          events |-> BySessionIds(resp.events, session_ids),
          function_events |-> BySessionIds(resp.function_events, session_ids),
          trace_tree |-> BySessionIds(resp.trace_tree, session_ids),
          enh_prompt_traces |-> BySessionIds(resp.enh_prompt_traces, session_ids),
          generated_at |-> resp.generated_at,
          version |-> resp.version ]

_filter_sessions(resp, c) ==
    LET filtered_sessions == KeptSessions(resp.sessions, resp, c)
        session_ids == SessionIds(filtered_sessions)
    IN  [ sessions |-> filtered_sessions,
          events |-> BySessionIds(resp.events, session_ids),
          function_events |-> BySessionIds(resp.function_events, session_ids),
          trace_tree |-> resp.trace_tree,
          enh_prompt_traces |-> resp.enh_prompt_traces,
          generated_at |-> resp.generated_at,
          version |-> resp.version ]

(***************************************************************************)
(* Inputs of the filter engine: the responses and the criteria the model   *)
(* draws from.                                                             *)
(***************************************************************************)
s_env == <<"e","n","v">>
s_ENV == <<"E","N","V">>
s_prod == <<"p","r","o","d">>
s_openai == <<"o","p","e","n","a","i">>

SessProd ==
    [ id |-> <<"a","1">>, name |-> <<"A","g","e","n","t">>, started_at |-> 1,
      labels |-> (s_env :> Str(s_prod)),
      meta |-> (<<"p","i","d">> :> Num(12)) ]

SessDev ==
    [ id |-> <<"b","2">>, name |-> <<"d","e","v">>, started_at |-> 2,
      labels |-> (s_env :> Str(<<"d","e","v">>)),
      meta |-> EmptyDict ]

SessUpper ==
    [ id |-> <<"c","3">>, name |-> <<"b","o","t">>, started_at |-> 3,
      labels |-> (s_ENV :> Str(s_prod)) @@ (<<"u">> :> Str(<<"P","r","o","d","u","c","t">>)),
      meta |-> (s_prod :> Str(<<"x">>)) ]

SessionPool == {SessProd, SessDev, SessUpper}

\* lists of at most n sessions with pairwise distinct ids
RECURSIVE SessionLists(_)
SessionLists(n) ==
    IF n = 0 THEN {<<>>}
    ELSE LET shorter == SessionLists(n - 1)
         IN  shorter \cup
             { Append(pr[1], pr[2]) :
                 pr \in { q \in shorter \X SessionPool :
                            Len(q[1]) = n - 1 /\ q[2].id \notin SessionIds(q[1]) } }

EvOpenAIError ==
    [ kind |-> "event", session_id |-> <<"a","1">>, provider |-> <<"O","p","e","n","A","I">>,
      request |-> Dict("model" :> Str(<<"G","P","T","-","4">>)),
      error |-> Str(<<"b","o","o","m">>), evaluations |-> <<>> ]

EvAnthropicFailedEval ==
    [ kind |-> "event", session_id |-> <<"b","2">>, provider |-> <<"a","n","t","h">>,
      request |-> None, error |-> None,
      evaluations |-> << Dict("passed" :> Bool(TRUE)), Dict("passed" :> Bool(FALSE)) >> ]

EvNoModel ==
    [ kind |-> "event", session_id |-> <<"c","3">>, provider |-> s_openai,
      request |-> Dict("temperature" :> Num(1)), error |-> Str(<<>>),
      evaluations |-> << Str(<<"f","a","i","l","e","d">>) >> ]

EvOrphan ==
    [ kind |-> "event", session_id |-> <<"z","9">>, provider |-> s_openai,
      request |-> Dict("model" :> Str(<<"g","p","t","-","4">>)),
      error |-> Str(<<"b","o","o","m">>),
      evaluations |-> << Dict("status" :> Str(<<"F","A","I","L","E","D">>)) >> ]

FnProcess ==
    [ kind |-> "function", session_id |-> <<"a","1">>, provider |-> <<"f","u","n","c">>,
      name |-> Str(<<"P","r","o","c","e","s","s">>), module |-> None,
      error |-> None, evaluations |-> <<>> ]

FnModuleError ==
    [ kind |-> "function", session_id |-> <<"b","2">>, provider |-> s_openai,
      name |-> None, module |-> Str(<<"a","p","p",".","p","r","o","c">>),
      error |-> Str(<<"x">>), evaluations |-> << Dict("success" :> Bool(FALSE)) >> ]

EventPool == {EvOpenAIError, EvAnthropicFailedEval, EvNoModel, EvOrphan, FnProcess, FnModuleError}

\* the events and function events of a response, as one stream of at most n records
RECURSIVE EventStreams(_)
EventStreams(n) ==
    IF n = 0 THEN {<<>>}
    ELSE LET shorter == EventStreams(n - 1)
         IN  shorter \cup
             { Append(l, x) : l \in {m \in shorter : Len(m) = n - 1}, x \in EventPool }

RECURSIVE OfKind(_, _)
OfKind(stream, kind) ==
    IF stream = <<>> THEN <<>>
    ELSE (IF Head(stream).kind = kind THEN <<Head(stream)>> ELSE <<>>)
         \o OfKind(Tail(stream), kind)

SampleTraceTree == << [span_id |-> <<"s","1">>, session_id |-> <<"a","1">>, children |-> <<>>] >>

SampleEnhPromptTraces == << [id |-> <<"e","1">>, session_id |-> <<"b","2">>] >>

Responses ==
    { [ sessions |-> sl,
        events |-> OfKind(st, "event"),
        function_events |-> OfKind(st, "function"),
        trace_tree |-> SampleTraceTree,
        enh_prompt_traces |-> SampleEnhPromptTraces,
        generated_at |-> 5,
        version |-> 1 ] : sl \in SessionLists(MaxSessions), st \in EventStreams(MaxEvents) }

NoCriteria ==
    [ query |-> None, labels |-> None, provider |-> None, model |-> None,
      function |-> None, after |-> None, before |-> None,
      has_errors |-> FALSE, evals_failed |-> FALSE ]

CriteriaFields ==
    { "query", "labels", "provider", "model", "function", "after", "before",
      "has_errors", "evals_failed" }

\* the criteria of c that differ from the defaults of the signature
Supplied(c) == { f \in CriteriaFields : c[f] /= NoCriteria[f] }

List(l) == [t |-> "list", v |-> l]

CriteriaSet ==
    { c \in [ query : {None, Str(<<"P","R","O","D">>)},
              labels : {None, List(<< <<s_env, s_prod>> >>)},
              provider : {None, Str(<<"O","P","E","N","A","I">>)},
              model : {None, Str(<<"g","p","t">>)},
              function : {None, Str(<<"p","r","o","c">>)},
              after : {None, Num(0), Num(2)},
              before : {None, Num(0), Num(2)},
              has_errors : BOOLEAN,
              evals_failed : BOOLEAN ] : Cardinality(Supplied(c)) <= MaxSupplied }

(***************************************************************************)
(* Each specification below runs one part of the program; the variables of *)
(* the other parts stay idle.                                              *)
(***************************************************************************)
FilterIdle ==
    /\ response = None
    /\ criteria = NoCriteria
    /\ filtered = None
    /\ fpc = "idle"

TreeIdle ==
    /\ observations = <<>>
    /\ tree = <<>>
    /\ tpc = "idle"
    /\ pending = <<>>

EvalIdle ==
    /\ evaluation = None
    /\ eval_failed = FALSE
    /\ epc = "idle"

CmdIdle ==
    /\ args = None
    /\ parsed = None
    /\ cpc = "idle"
    /\ client = "none"
    /\ fetches = 0
    /\ filter_runs = 0
    /\ fetched = None
    /\ shown = None
    /\ printed = <<>>
    /\ exit_code = None

LabelIdle ==
    /\ label_input = <<>>
    /\ label_result = None
    /\ lpc = "idle"

MainIdle ==
    /\ default_provider = None
    /\ delegated = <<>>

(***************************************************************************)
(* The filter run: a response is given, _filter_sessions is applied once   *)
(* with some criteria.                                                     *)
(***************************************************************************)
FilterInit ==
    /\ response \in Responses
    /\ criteria = NoCriteria
    /\ filtered = None
    /\ fpc = "input"
    /\ TreeIdle
    /\ EvalIdle
    /\ CmdIdle
    /\ LabelIdle
    /\ MainIdle

Filter ==
    /\ fpc = "input"
    /\ \E c \in CriteriaSet :
          /\ criteria' = c
          /\ filtered' = _filter_sessions(response, c)
    /\ fpc' = "filtered"
    /\ UNCHANGED <<response, treeVars, evalVars, cmdVars, labelVars, mainVars>>

FilterNext == Filter

SpecFilter == FilterInit /\ [][FilterNext]_vars

(***************************************************************************)
(* The one-criterion run: _filter_sessions is applied once with criteria   *)
(* of a single dimension (the two date bounds count as one dimension), on  *)
(* responses with up to MaxCritEvents events.                              *)
(***************************************************************************)
CriterionResponses ==
    { [ sessions |-> sl,
        events |-> OfKind(st, "event"),
        function_events |-> OfKind(st, "function"),
        trace_tree |-> SampleTraceTree,
        enh_prompt_traces |-> SampleEnhPromptTraces,
        generated_at |-> 5,
        version |-> 1 ] : sl \in SessionLists(MaxSessions), st \in EventStreams(MaxCritEvents) }

Queries ==
    { <<"P","R","O","D">>, <<"E","N","V">>, <<"P","I","D">>, <<"1","2">>, <<"A","1">>,
      <<"G","E","N","T">> }

LabelFilters ==
    { << <<s_env, s_prod>> >>,
      << <<s_env, <<"P","R","O","D">> >> >>,
      << <<s_env, <<"p","r","o">> >> >>,
      << <<<<"u">>, <<"P","r","o","d">> >> >>,
      << <<s_ENV, s_prod>>, <<<<"u">>, <<"P","r","o","d","u","c","t">> >> >>,
      << <<s_ENV, s_prod>>, <<<<"u">>, <<"P","r","o","d">> >> >> }

ProviderFilters == { <<"O","P","E","N","A","I">>, <<"o","p","e","n">>, <<"F","u","n","c">> }

ModelFilters == { <<"g","p","t">>, <<"T","-","4">>, <<"t","e","m","p">> }

FunctionFilters == { <<"p","r","o","c">>, <<"A","P","P",".">>, <<"o","p","e","n","a","i">> }

Timestamps == {None, Num(0), Num(2), Num(3)}

CriterionSet ==
    { NoCriteria,
      [NoCriteria EXCEPT !.has_errors = TRUE],
      [NoCriteria EXCEPT !.evals_failed = TRUE] }
    \cup { [NoCriteria EXCEPT !.query = Str(q)] : q \in Queries }
    \cup { [NoCriteria EXCEPT !.labels = List(l)] : l \in LabelFilters }
    \cup { [NoCriteria EXCEPT !.provider = Str(p)] : p \in ProviderFilters }
    \cup { [NoCriteria EXCEPT !.model = Str(m)] : m \in ModelFilters }
    \cup { [NoCriteria EXCEPT !.function = Str(f)] : f \in FunctionFilters }
    \cup { [NoCriteria EXCEPT !.after = a, !.before = b] : a \in Timestamps, b \in Timestamps }

CriterionInit ==
    /\ response \in CriterionResponses
    /\ criteria = NoCriteria
    /\ filtered = None
    /\ fpc = "input"
    /\ TreeIdle
    /\ EvalIdle
    /\ CmdIdle
    /\ LabelIdle
    /\ MainIdle

FilterCriterion ==
    /\ fpc = "input"
    /\ \E c \in CriterionSet :
          /\ criteria' = c
          /\ filtered' = _filter_sessions(response, c)
    /\ fpc' = "filtered"
    /\ UNCHANGED <<response, treeVars, evalVars, cmdVars, labelVars, mainVars>>

CriterionNext == FilterCriterion

SpecCriterion == CriterionInit /\ [][CriterionNext]_vars

(***************************************************************************)
(* Trace tree reconstruction, cli/langfuse.py.  An entry of an observation *)
(* list is a bare id, Str(id), or a full LangfuseObservation,              *)
(* Obs(id, parent_observation_id), whose parent is None or Str(id).  A     *)
(* node of the rich Tree is [kind, id, children]: kind "obs" for a branch  *)
(* added by add_node for the record id, kind "ref" for a dim flat entry.   *)
(***************************************************************************)
Obs(id, parent) == [t |-> "obs", v |-> [id |-> id, parent_observation_id |-> parent]]

\* [o for o in observations if isinstance(o, LangfuseObservation)]
RECURSIVE FullObservations(_)
FullObservations(obs_list) ==
    IF obs_list = <<>> THEN <<>>
    ELSE (IF Head(obs_list).t = "obs" THEN <<Head(obs_list).v>> ELSE <<>>)
         \o FullObservations(Tail(obs_list))

\* Mutation of ChildrenGet: the grouping loop puts each record in front of its
\* list instead of appending it.
RECURSIVE ChildrenGetPrepended(_, _)
ChildrenGetPrepended(full_observations, key) ==
    IF full_observations = <<>> THEN <<>>
    ELSE ChildrenGetPrepended(Tail(full_observations), key)
         \o (IF Head(full_observations).parent_observation_id = key
             THEN <<Head(full_observations)>> ELSE <<>>)

\* children.get(key, []) for the dict built by the grouping loop: the full
\* records whose parent_observation_id is key, in input order
RECURSIVE ChildrenGet(_, _)
ChildrenGet(full_observations, key) ==
    IF full_observations = <<>> THEN <<>>
    ELSE (IF Head(full_observations).parent_observation_id = key
          THEN <<Head(full_observations)>> ELSE <<>>)
         \o ChildrenGet(Tail(full_observations), key)

\* Mutation of add_node: the branch is added, its children are not.
add_node_leaf(obs, full_observations) ==
    [kind |-> "obs", id |-> obs.id, children |-> <<>>]

\* the branch parent_tree.add(label) and everything added below it
RECURSIVE add_node(_, _)
add_node(obs, full_observations) ==
    LET kids == ChildrenGet(full_observations, Str(obs.id))
    IN  [ kind |-> "obs", id |-> obs.id,
          children |-> [i \in 1..Len(kids) |-> add_node(kids[i], full_observations)] ]

\* the tree.add calls of the loop over the bare ids
RECURSIVE FlatEntries(_)
FlatEntries(obs_list) ==
    IF obs_list = <<>> THEN <<>>
    ELSE (IF Head(obs_list).t = "str"
          THEN << [kind |-> "ref", id |-> Head(obs_list).v, children |-> <<>>] >>
          ELSE <<>>)
         \o FlatEntries(Tail(obs_list))

\* Mutation of _build_observation_tree: a list without full records returns
\* before anything is added.
_build_observation_tree_no_fallback(obs_list, tree_) ==
    LET full_observations == FullObservations(obs_list)
        roots == ChildrenGet(full_observations, None)
    IN  IF full_observations = <<>> THEN tree_
        ELSE tree_ \o [i \in 1..Len(roots) |-> add_node(roots[i], full_observations)]

\* the children of tree after the call
_build_observation_tree(obs_list, tree_) ==
    LET full_observations == FullObservations(obs_list)
        roots == ChildrenGet(full_observations, None)
    IN  IF full_observations = <<>> THEN tree_ \o FlatEntries(obs_list)
        ELSE tree_ \o [i \in 1..Len(roots) |-> add_node(roots[i], full_observations)]

ObsIds == { <<"o", DigitChars[k + 1]>> : k \in 1..MaxObs }
GhostId == <<"g","h","o","s","t">>
RefIds == { <<"r","1">>, <<"r","2">> }

ObsEntries ==
    { Obs(id, parent) : id \in ObsIds,
                        parent \in {None, Str(GhostId)} \cup {Str(p) : p \in ObsIds} }
    \cup { Str(r) : r \in RefIds }

\* the ids of the full records of a list
FullIds(obs_list) ==
    { obs_list[i].v.id : i \in {j \in DOMAIN obs_list : obs_list[j].t = "obs"} }

\* lists of at most n entries whose full records have pairwise distinct ids
RECURSIVE ObsLists(_)
ObsLists(n) ==
    IF n = 0 THEN {<<>>}
    ELSE LET shorter == ObsLists(n - 1)
         IN  shorter \cup
             { Append(pr[1], pr[2]) :
                 pr \in { q \in shorter \X ObsEntries :
                            /\ Len(q[1]) = n - 1
                            /\ q[2].t = "obs" => q[2].v.id \notin FullIds(q[1]) } }

TreeInit ==
    /\ observations \in ObsLists(MaxObs)
    /\ tree = <<>>
    /\ tpc = "input"
    /\ pending = <<>>
    /\ FilterIdle
    /\ EvalIdle
    /\ CmdIdle
    /\ LabelIdle
    /\ MainIdle

BuildTree ==
    /\ tpc = "input"
    /\ tree' = _build_observation_tree(observations, tree)
    /\ tpc' = "built"
    /\ UNCHANGED <<observations, pending, filterVars, evalVars, cmdVars, labelVars, mainVars>>

TreeNext == BuildTree

SpecTree == TreeInit /\ [][TreeNext]_vars

(***************************************************************************)
(* One call of _build_observation_tree, one tree.add at a time.            *)
(***************************************************************************)
\* the add_node calls for the records of obs_list, each on the tree at path
Calls(obs_list, path) == [i \in 1..Len(obs_list) |-> [obs |-> obs_list[i], path |-> path]]

\* parent_tree.add(label): node becomes the last child of the tree at path
RECURSIVE TreeAdd(_, _, _)
TreeAdd(nodes, path, node) ==
    IF path = <<>> THEN Append(nodes, node)
    ELSE [nodes EXCEPT ![Head(path)].children = TreeAdd(@, Tail(path), node)]

\* the number of children of the tree at path
RECURSIVE TreeLen(_, _)
TreeLen(nodes, path) ==
    IF path = <<>> THEN Len(nodes) ELSE TreeLen(nodes[Head(path)].children, Tail(path))

\* the function is entered: the fallback loop runs, or the grouping loop runs
\* and the loop over the roots has its add_node calls ahead
EnterBuild ==
    /\ tpc = "input"
    /\ IF FullObservations(observations) = <<>>
       THEN /\ tree' = tree \o FlatEntries(observations)
            /\ pending' = <<>>
            /\ tpc' = "built"
       ELSE /\ tree' = tree
            /\ pending' = Calls(ChildrenGet(FullObservations(observations), None), <<>>)
            /\ tpc' = "adding"
    /\ UNCHANGED <<observations, filterVars, evalVars, cmdVars, labelVars, mainVars>>

\* Mutation of AddNodeCall: the loop over the children runs twice.
AddNodeCallTwice ==
    /\ tpc = "adding"
    /\ pending /= <<>>
    /\ LET call == Head(pending)
           branch == call.path \o <<TreeLen(tree, call.path) + 1>>
           kids == ChildrenGet(FullObservations(observations), Str(call.obs.id))
       IN  /\ tree' = TreeAdd(tree, call.path, [kind |-> "obs", id |-> call.obs.id, children |-> <<>>])
           /\ pending' = Calls(kids, branch) \o Calls(kids, branch) \o Tail(pending)
    /\ UNCHANGED <<observations, tpc, filterVars, evalVars, cmdVars, labelVars, mainVars>>

\* one add_node call: the branch is added to parent_tree, the calls for the
\* children of the record come next, before the calls that were waiting
AddNodeCall ==
    /\ tpc = "adding"
    /\ pending /= <<>>
    /\ LET call == Head(pending)
           branch == call.path \o <<TreeLen(tree, call.path) + 1>>
           kids == ChildrenGet(FullObservations(observations), Str(call.obs.id))
       IN  /\ tree' = TreeAdd(tree, call.path, [kind |-> "obs", id |-> call.obs.id, children |-> <<>>])
           /\ pending' = Calls(kids, branch) \o Tail(pending)
    /\ UNCHANGED <<observations, tpc, filterVars, evalVars, cmdVars, labelVars, mainVars>>

\* the loop over the roots is over, the function returns
ReturnBuild ==
    /\ tpc = "adding"
    /\ pending = <<>>
    /\ tpc' = "built"
    /\ UNCHANGED <<observations, tree, pending, filterVars, evalVars, cmdVars, labelVars, mainVars>>

TreeRunNext ==
    \/ EnterBuild
    \/ AddNodeCall
    \/ ReturnBuild

\* the interpreter runs the next statement of the call as long as there is one
FairTreeRun == TreeInit /\ [][TreeRunNext]_vars /\ WF_vars(TreeRunNext)

(***************************************************************************)
(* One call of _eval_is_failed on an evaluation record: a dict over the    *)
(* keys the function reads, or a value that is no dict.                    *)
(***************************************************************************)
EvalValues ==
    { None, Bool(TRUE), Bool(FALSE), Num(0), Num(1), Str(<<>>),
      Str(<<"F","A","I","L","E","D">>), Str(<<"f","a","i","l">>),
      Str(<<"E","r","r","o","r">>), Str(<<"f","a","i","l","s">>),
      Str(<<"F","a","l","s","e">>) }

EvalKeys == {"passed", "result", "status", "success"}

EvalDicts ==
    UNION { [keys -> EvalValues] : keys \in SUBSET EvalKeys }

EvalInputs ==
    { Dict(d) : d \in EvalDicts }
    \cup { Dict("score" :> Num(0)), Dict(("name" :> Str(<<"f","a","i","l">>)) @@ ("passed" :> Bool(TRUE))) }
    \cup EvalValues
    \cup { List(<<>>), List(<< Bool(FALSE) >>) }

EvalInit ==
    /\ evaluation \in EvalInputs
    /\ eval_failed = FALSE
    /\ epc = "input"
    /\ FilterIdle
    /\ TreeIdle
    /\ CmdIdle
    /\ LabelIdle
    /\ MainIdle

EvalCall ==
    /\ epc = "input"
    /\ eval_failed' = _eval_is_failed(evaluation)
    /\ epc' = "returned"
    /\ UNCHANGED <<evaluation, filterVars, treeVars, cmdVars, labelVars, mainVars>>

EvalNext == EvalCall

SpecEval == EvalInit /\ [][EvalNext]_vars

(***************************************************************************)
(* The session commands of cli/sessions.py: list, get and search.  One     *)
(* invocation runs from "start" to "exit"; the steps follow the statements *)
(* of the command function.  The options of search arrive here as the      *)
(* criteria handed to _filter_sessions.                                    *)
(***************************************************************************)
Min(a, b) == IF a <= b THEN a ELSE b
Max(a, b) == IF a >= b THEN a ELSE b

\* seq[:n]
PySliceTo(seq, n) ==
    IF n >= 0 THEN SubSeq(seq, 1, Min(n, Len(seq)))
    ELSE SubSeq(seq, 1, Max(Len(seq) + n, 0))

\* Mutation of ApplyLimit: the slice stops one element early.
ApplyLimitShort(resp, limit) ==
    IF Truthy(limit) /\ resp.sessions /= <<>>
    THEN [resp EXCEPT !.sessions = PySliceTo(resp.sessions, limit.v - 1)]
    ELSE resp

\* if limit and response.sessions: response.sessions = response.sessions[:limit]
ApplyLimit(resp, limit) ==
    IF Truthy(limit) /\ resp.sessions /= <<>>
    THEN [resp EXCEPT !.sessions = PySliceTo(resp.sessions, limit.v)]
    ELSE resp

\* session.id[:8] + "..."
IdCell(id) == PySliceTo(id, 8) \o <<".", ".", ".">>

\* the number of records of seq that carry the session id
CountFor(seq, id) == Cardinality({i \in DOMAIN seq : seq[i].session_id = id})

\* the number of records of seq that carry the session id and a non-empty error
ErrorsFor(seq, id) ==
    Cardinality({i \in DOMAIN seq : seq[i].session_id = id /\ Truthy(seq[i].error)})

_print_sessions_table(resp) ==
    IF resp.sessions = <<>> THEN << [kind |-> "message", text |-> "No sessions found."] >>
    ELSE << [ kind |-> "table", title |-> "Sessions",
              rows |-> [ i \in DOMAIN resp.sessions |->
                           [ id |-> IdCell(resp.sessions[i].id),
                             events |-> CountFor(resp.events, resp.sessions[i].id)
                                        + CountFor(resp.function_events, resp.sessions[i].id) ] ] ] >>

_print_sessions_json(resp) ==
    << [ kind |-> "json",
         sessions |-> resp.sessions,
         total_events |-> Len(resp.events),
         total_function_events |-> Len(resp.function_events) ] >>

_print_search_results(resp) ==
    IF resp.sessions = <<>>
    THEN << [kind |-> "message", text |-> "No sessions match your search criteria."] >>
    ELSE << [ kind |-> "table", title |-> "Search Results",
              rows |-> [ i \in DOMAIN resp.sessions |->
                           [ id |-> IdCell(resp.sessions[i].id),
                             events |-> CountFor(resp.events, resp.sessions[i].id)
                                        + CountFor(resp.function_events, resp.sessions[i].id),
                             errors |-> ErrorsFor(resp.events, resp.sessions[i].id)
                                        + ErrorsFor(resp.function_events, resp.sessions[i].id) ] ] ] >>

_print_session_detail(resp) ==
    IF resp.sessions = <<>> THEN << [kind |-> "message", text |-> "No session data found."] >>
    ELSE << [ kind |-> "detail", session |-> resp.sessions[1].id,
              events |-> Len(resp.events), function_events |-> Len(resp.function_events),
              trace_roots |-> Len(resp.trace_tree) ] >>

\* for session in response.sessions: console.print(session.id)
PrintIds(resp) == [i \in DOMAIN resp.sessions |-> [kind |-> "id", id |-> resp.sessions[i].id]]

\* the output branch of the command
Render(a, resp) ==
    CASE a.cmd = "get" ->
            IF a.output_format = "json" THEN << [kind |-> "json_dump", response |-> resp] >>
            ELSE _print_session_detail(resp)
      [] a.cmd = "list" ->
            IF a.ids_only THEN PrintIds(resp)
            ELSE IF a.output_format = "json" THEN _print_sessions_json(resp)
            ELSE _print_sessions_table(resp)
      [] a.cmd = "search" ->
            IF a.ids_only THEN PrintIds(resp)
            ELSE IF a.output_format = "json" THEN _print_sessions_json(resp)
            ELSE _print_search_results(resp)

(***************************************************************************)
(* The option parsers of the search command.  A parser gives               *)
(* Returned(value), or BadParameter(text) where it raises                  *)
(* typer.BadParameter.  A format of strptime is the sequence of its        *)
(* directives and literal characters.  The timestamp of a local datetime   *)
(* is computed for a local time zone that is UTC.                          *)
(***************************************************************************)
Returned(v) == [raised |-> FALSE, value |-> v]
BadParameter(text) == [raised |-> TRUE, text |-> text]

Whitespace == {" ", "\t", "\n", "\r"}

RECURSIVE LStrip(_)
LStrip(s) == IF s /= <<>> /\ Head(s) \in Whitespace THEN LStrip(Tail(s)) ELSE s

RECURSIVE RStrip(_)
RStrip(s) ==
    IF s /= <<>> /\ s[Len(s)] \in Whitespace THEN RStrip(SubSeq(s, 1, Len(s) - 1)) ELSE s

\* str.strip()
Strip(s) == RStrip(LStrip(s))

\* Mutation of _parse_label: the string is split at its last "=".
_parse_label_rsplit(label_str) ==
    IF \A i \in DOMAIN label_str : label_str[i] /= "="
    THEN BadParameter("Invalid label format")
    ELSE LET at == CHOOSE i \in DOMAIN label_str :
                      label_str[i] = "=" /\ \A j \in (i + 1)..Len(label_str) : label_str[j] /= "="
             key == SubSeq(label_str, 1, at - 1)
             value == SubSeq(label_str, at + 1, Len(label_str))
         IN  Returned(<<Strip(key), Strip(value)>>)

_parse_label(label_str) ==
    IF \A i \in DOMAIN label_str : label_str[i] /= "="
    THEN BadParameter("Invalid label format")
    ELSE LET at == CHOOSE i \in DOMAIN label_str :
                      label_str[i] = "=" /\ \A j \in 1..(i - 1) : label_str[j] /= "="
             key == SubSeq(label_str, 1, at - 1)
             value == SubSeq(label_str, at + 1, Len(label_str))
         IN  Returned(<<Strip(key), Strip(value)>>)

IsDigit(ch) == ch \in Range(DigitChars)

DigitVal(ch) == (CHOOSE i \in DOMAIN DigitChars : DigitChars[i] = ch) - 1

\* int(digits)
RECURSIVE IntOf(_)
IntOf(digits) ==
    IF digits = <<>> THEN 0
    ELSE 10 * IntOf(SubSeq(digits, 1, Len(digits) - 1)) + DigitVal(digits[Len(digits)])

Directives == {"%Y", "%m", "%d", "%H", "%M", "%S"}

\* the numbers of digits a directive may consume
Widths(d) == IF d = "%Y" THEN {4} ELSE {1, 2}

\* the digits are a value that the pattern of the directive accepts
Accepts(d, digits) ==
    LET n == IntOf(digits)
    IN  CASE d = "%Y" -> TRUE
          [] d = "%m" -> n \in 1..12
          [] d = "%d" -> n \in 1..31
          [] d = "%H" -> n \in 0..23
          [] d = "%M" -> n \in 0..59
          [] d = "%S" -> n \in 0..61

\* the field values under which the whole of s matches the format fmt
RECURSIVE StrptimeFields(_, _)
StrptimeFields(s, fmt) ==
    IF fmt = <<>> THEN (IF s = <<>> THEN {<<>>} ELSE {})
    ELSE IF Head(fmt) \in Directives
    THEN UNION { { <<IntOf(SubSeq(s, 1, w))>> \o rest :
                     rest \in StrptimeFields(SubSeq(s, w + 1, Len(s)), Tail(fmt)) } :
                 w \in { v \in Widths(Head(fmt)) :
                           /\ v <= Len(s)
                           /\ \A i \in 1..v : IsDigit(s[i])
                           /\ Accepts(Head(fmt), SubSeq(s, 1, v)) } }
    ELSE IF Head(fmt) = " "
    THEN UNION { StrptimeFields(SubSeq(s, k + 1, Len(s)), Tail(fmt)) :
                 k \in { n \in 1..Len(s) : \A i \in 1..n : s[i] \in Whitespace } }
    ELSE IF s /= <<>> /\ Head(s) = Head(fmt) THEN StrptimeFields(Tail(s), Tail(fmt))
    ELSE {}

IsLeap(y) == (y % 4 = 0 /\ y % 100 /= 0) \/ y % 400 = 0

DaysInMonth(y, m) ==
    CASE m \in {1, 3, 5, 7, 8, 10, 12} -> 31
      [] m \in {4, 6, 9, 11} -> 30
      [] m = 2 -> IF IsLeap(y) THEN 29 ELSE 28

\* year, month, day, hour, minute, second, with 0 for the fields the format lacks
PadFields(f) == f \o [i \in 1..(6 - Len(f)) |-> 0]

\* datetime(year, month, day, hour, minute, second) raises no ValueError
ValidDatetime(f) ==
    /\ f[1] \in 1..9999
    /\ f[3] <= DaysInMonth(f[1], f[2])
    /\ f[6] <= 59

\* datetime.strptime(date_str, fmt): the datetime, as a set that is empty where
\* ValueError is raised
Strptime(date_str, fmt) ==
    { PadFields(f) : f \in { g \in StrptimeFields(date_str, fmt) : ValidDatetime(PadFields(g)) } }

\* the days from 1970-01-01 to the date
DaysFromCivil(y, m, d) ==
    LET yy == IF m <= 2 THEN y - 1 ELSE y
        era == yy \div 400
        yoe == yy - era * 400
        mp == IF m > 2 THEN m - 3 ELSE m + 9
        doy == (153 * mp + 2) \div 5 + d - 1
        doe == yoe * 365 + yoe \div 4 - yoe \div 100 + doy
    IN  era * 146097 + doe - 719468

\* datetime.timestamp()
Timestamp(f) == DaysFromCivil(f[1], f[2], f[3]) * 86400 + f[4] * 3600 + f[5] * 60 + f[6]

DateFormats ==
    << <<"%Y", "-", "%m", "-", "%d">>,
       <<"%Y", "-", "%m", "-", "%d", " ", "%H", ":", "%M", ":", "%S">>,
       <<"%Y", "-", "%m", "-", "%d", "T", "%H", ":", "%M", ":", "%S">>,
       <<"%Y", "-", "%m", "-", "%d", " ", "%H", ":", "%M">> >>

_parse_date(date_str) ==
    LET matching == { k \in DOMAIN DateFormats : Strptime(date_str, DateFormats[k]) /= {} }
    IN  IF matching = {} THEN BadParameter("Invalid date format")
        ELSE LET fmt == DateFormats[CHOOSE k \in matching : \A j \in matching : k <= j]
             IN  Returned(Num(Timestamp(CHOOSE f \in Strptime(date_str, fmt) : TRUE)))

\* the loop over label: parsed_labels, or the BadParameter of the first label
\* that raises
ParseLabels(label) ==
    IF ~Truthy(label) THEN Returned(<<>>)
    ELSE LET bad == { i \in DOMAIN label.v : _parse_label(label.v[i]).raised }
         IN  IF bad /= {} THEN _parse_label(label.v[CHOOSE i \in bad : \A j \in bad : i <= j])
             ELSE Returned([i \in DOMAIN label.v |-> _parse_label(label.v[i]).value])

\* _parse_date(opt) if opt else None
ParseDateOption(opt) == IF Truthy(opt) THEN _parse_date(opt.v) ELSE Returned(None)

\* the statements of search_sessions that parse the labels and the dates
ParseOptions(a) ==
    LET labels == ParseLabels(a.label)
        after == ParseDateOption(a.after)
        before == ParseDateOption(a.before)
    IN  IF labels.raised THEN labels
        ELSE IF after.raised THEN after
        ELSE IF before.raised THEN before
        ELSE Returned([ parsed_labels |-> labels.value,
                        after_ts |-> after.value,
                        before_ts |-> before.value ])

\* the keyword arguments of the _filter_sessions call of search_sessions
SearchCriteria(a, p) ==
    [ a.crit EXCEPT !.labels = IF p.parsed_labels /= <<>> THEN List(p.parsed_labels) ELSE None,
                    !.after = p.after_ts,
                    !.before = p.before_ts ]

CmdEventPool == {EvOpenAIError, EvAnthropicFailedEval, FnModuleError}

RECURSIVE CmdEventStreams(_)
CmdEventStreams(n) ==
    IF n = 0 THEN {<<>>}
    ELSE LET shorter == CmdEventStreams(n - 1)
         IN  shorter \cup
             { Append(l, x) : l \in {m \in shorter : Len(m) = n - 1}, x \in CmdEventPool }

\* what client.list_sessions() and client.get_session() may return
CmdResponses ==
    { [ sessions |-> sl,
        events |-> OfKind(st, "event"),
        function_events |-> OfKind(st, "function"),
        trace_tree |-> SampleTraceTree,
        enh_prompt_traces |-> SampleEnhPromptTraces,
        generated_at |-> 5,
        version |-> 1 ] : sl \in SessionLists(MaxSessions), st \in CmdEventStreams(MaxEvents) }

Limits == {None} \cup {Num(n) : n \in (-1)..MaxLimit}

\* the criteria that search_sessions hands on as they are given
CmdCriteria ==
    { NoCriteria,
      [NoCriteria EXCEPT !.has_errors = TRUE],
      [NoCriteria EXCEPT !.query = Str(<<"P","R","O","D">>)] }

\* values given to --after and --before
DateStrings ==
    LET epoch == <<"1","9","7","0","-","0","1","-","0","1">>
    IN  [ epoch |-> epoch,
          two_seconds |-> epoch \o <<" ","0","0",":","0","0",":","0","2">>,
          one_second_T |-> epoch \o <<"T","0","0",":","0","0",":","0","1">>,
          one_minute |-> epoch \o <<" ","0","0",":","0","1">>,
          month_13 |-> <<"2","0","2","5","-","1","3","-","0","1">>,
          feb_30 |-> <<"1","9","7","0","-","0","2","-","3","0">>,
          slashes |-> <<"0","1","/","0","2","/","1","9","7","0">>,
          empty |-> <<>> ]

\* values given to --label
LabelStrings ==
    [ env_prod |-> <<"e","n","v","=","p","r","o","d">>,
      spaced |-> <<" ","e","n","v"," ","="," ","p","r","o","d"," ">>,
      two_equals |-> <<"e","n","v","=","p","r","o","d","=","x">>,
      no_equals |-> <<"e","n","v","p","r","o","d">>,
      empty |-> <<>> ]

NoOptions == [label |-> None, after |-> None, before |-> None]

\* the --label, --after and --before options of one search invocation
SearchOptions ==
    { NoOptions,
      [NoOptions EXCEPT !.label = List(<<LabelStrings.env_prod>>)],
      [NoOptions EXCEPT !.label = List(<<LabelStrings.spaced>>)],
      [NoOptions EXCEPT !.label = List(<<LabelStrings.two_equals>>)],
      [NoOptions EXCEPT !.label = List(<<LabelStrings.no_equals>>)],
      [NoOptions EXCEPT !.label = List(<<LabelStrings.env_prod, LabelStrings.no_equals>>)],
      [NoOptions EXCEPT !.label = List(<<LabelStrings.empty>>)],
      [NoOptions EXCEPT !.after = Str(DateStrings.two_seconds)],
      [NoOptions EXCEPT !.before = Str(DateStrings.epoch)],
      [NoOptions EXCEPT !.after = Str(DateStrings.one_second_T), !.before = Str(DateStrings.one_minute)],
      [NoOptions EXCEPT !.after = Str(DateStrings.month_13)],
      [NoOptions EXCEPT !.before = Str(DateStrings.feb_30)],
      [NoOptions EXCEPT !.after = Str(DateStrings.epoch), !.before = Str(DateStrings.slashes)],
      [NoOptions EXCEPT !.after = Str(DateStrings.empty)],
      [NoOptions EXCEPT !.label = List(<<LabelStrings.no_equals>>), !.after = Str(DateStrings.month_13)] }

\* the criteria and options of the search invocations
SearchInputs ==
    { <<c, NoOptions>> : c \in CmdCriteria } \cup { <<NoCriteria, o>> : o \in SearchOptions }

CmdArgs ==
    { [ cmd |-> "list", api_key |-> k, limit |-> l, ids_only |-> i, output_format |-> o,
        crit |-> NoCriteria, label |-> None, after |-> None, before |-> None ] :
          k \in BOOLEAN, l \in Limits, i \in BOOLEAN, o \in {"table", "json"} }
    \cup
    { [ cmd |-> "get", api_key |-> k, limit |-> None, ids_only |-> FALSE, output_format |-> o,
        crit |-> NoCriteria, label |-> None, after |-> None, before |-> None ] :
          k \in BOOLEAN, o \in {"table", "json"} }
    \cup
    { [ cmd |-> "search", api_key |-> k, limit |-> l, ids_only |-> i, output_format |-> o,
        crit |-> in[1], label |-> in[2].label, after |-> in[2].after,
        before |-> in[2].before ] :
          k \in BOOLEAN, l \in Limits, i \in BOOLEAN, o \in {"table", "json"},
          in \in SearchInputs }

CmdInit ==
    /\ args \in CmdArgs
    /\ parsed = None
    /\ cpc = IF args.cmd = "search" THEN "parse" ELSE "start"
    /\ client = "none"
    /\ fetches = 0
    /\ filter_runs = 0
    /\ fetched = None
    /\ shown = None
    /\ printed = <<>>
    /\ exit_code = None
    /\ FilterIdle
    /\ TreeIdle
    /\ EvalIdle
    /\ LabelIdle
    /\ MainIdle

\* search: the labels and the dates are parsed
ParseOk ==
    /\ cpc = "parse"
    /\ ~ParseOptions(args).raised
    /\ parsed' = ParseOptions(args).value
    /\ cpc' = "start"
    /\ UNCHANGED <<args, client, fetches, filter_runs, fetched, shown, printed, exit_code, filterVars, treeVars, evalVars, labelVars, mainVars>>

\* search: a parser raises typer.BadParameter, the command ends with a usage error
ParseFails ==
    /\ cpc = "parse"
    /\ ParseOptions(args).raised
    /\ printed' = Append(printed, [kind |-> "usage_error", text |-> ParseOptions(args).text])
    /\ exit_code' = Num(2)
    /\ cpc' = "exit"
    /\ UNCHANGED <<args, parsed, client, fetches, filter_runs, fetched, shown, filterVars, treeVars, evalVars, labelVars, mainVars>>

\* Mutation of GetClientNoKey: the message is printed but typer.Exit is not
\* raised, and _get_client goes on to construct the client.
GetClientNoKeyContinues ==
    /\ cpc = "start"
    /\ ~args.api_key
    /\ printed' = Append(printed, [kind |-> "error", text |-> "No API key configured."])
    /\ client' = "open"
    /\ cpc' = "fetch"
    /\ UNCHANGED <<args, parsed, fetches, filter_runs, fetched, shown, exit_code, filterVars, treeVars, evalVars, labelVars, mainVars>>

\* _get_client: no API key is configured
GetClientNoKey ==
    /\ cpc = "start"
    /\ ~args.api_key
    /\ printed' = Append(printed, [kind |-> "error", text |-> "No API key configured."])
    /\ exit_code' = Num(1)
    /\ cpc' = "exit"
    /\ UNCHANGED <<args, parsed, client, fetches, filter_runs, fetched, shown, filterVars, treeVars, evalVars, labelVars, mainVars>>

\* _get_client returns a client and the with statement enters it
GetClient ==
    /\ cpc = "start"
    /\ args.api_key
    /\ client' = "open"
    /\ cpc' = "fetch"
    /\ UNCHANGED <<args, parsed, fetches, filter_runs, fetched, shown, printed, exit_code, filterVars, treeVars, evalVars, labelVars, mainVars>>

\* Mutation of FetchOk: the response is received and the command fetches again.
FetchOkRefetches ==
    /\ cpc = "fetch"
    /\ \E r \in CmdResponses :
          /\ fetched' = r
          /\ shown' = r
    /\ fetches' = fetches + 1
    /\ cpc' = IF fetches = 0 THEN "fetch"
              ELSE CASE args.cmd = "search" -> "filter"
                     [] args.cmd = "list" -> "limit"
                     [] args.cmd = "get" -> "render"
    /\ UNCHANGED <<args, parsed, client, filter_runs, printed, exit_code, filterVars, treeVars, evalVars, labelVars, mainVars>>

\* client.list_sessions() or client.get_session(session_id) returns
FetchOk ==
    /\ cpc = "fetch"
    /\ \E r \in CmdResponses :
          /\ fetched' = r
          /\ shown' = r
    /\ fetches' = fetches + 1
    /\ cpc' = CASE args.cmd = "search" -> "filter"
                [] args.cmd = "list" -> "limit"
                [] args.cmd = "get" -> "render"
    /\ UNCHANGED <<args, parsed, client, filter_runs, printed, exit_code, filterVars, treeVars, evalVars, labelVars, mainVars>>

\* the errors a fetch of the command may raise, each with the text of its handler
FetchErrors(cmd) ==
    {"Authentication failed:", "Error:"}
    \cup (IF cmd = "get" THEN {"Session not found:"} ELSE {})

\* Mutation of FetchFails: the handler reports the error but does not raise
\* typer.Exit(1), so the command returns normally.
FetchFailsReturns ==
    /\ cpc = "fetch"
    /\ \E e \in FetchErrors(args.cmd) :
          printed' = Append(printed, [kind |-> "error", text |-> e])
    /\ fetches' = fetches + 1
    /\ client' = "closed"
    /\ exit_code' = Num(0)
    /\ cpc' = "exit"
    /\ UNCHANGED <<args, parsed, filter_runs, fetched, shown, filterVars, treeVars, evalVars, labelVars, mainVars>>

\* the fetch raises: the with statement leaves the client, the handler reports
FetchFails ==
    /\ cpc = "fetch"
    /\ \E e \in FetchErrors(args.cmd) :
          printed' = Append(printed, [kind |-> "error", text |-> e])
    /\ fetches' = fetches + 1
    /\ client' = "closed"
    /\ exit_code' = Num(1)
    /\ cpc' = "exit"
    /\ UNCHANGED <<args, parsed, filter_runs, fetched, shown, filterVars, treeVars, evalVars, labelVars, mainVars>>

\* search: filtered = _filter_sessions(response, ...)
FilterStep ==
    /\ cpc = "filter"
    /\ shown' = _filter_sessions(fetched, SearchCriteria(args, parsed))
    /\ filter_runs' = filter_runs + 1
    /\ cpc' = "limit"
    /\ UNCHANGED <<args, parsed, client, fetches, fetched, printed, exit_code, filterVars, treeVars, evalVars, labelVars, mainVars>>

\* list, search: the limit is applied to the sessions about to be printed
LimitStep ==
    /\ cpc = "limit"
    /\ shown' = ApplyLimit(shown, args.limit)
    /\ cpc' = "render"
    /\ UNCHANGED <<args, parsed, client, fetches, filter_runs, fetched, printed, exit_code, filterVars, treeVars, evalVars, labelVars, mainVars>>

\* the output branch prints
RenderStep ==
    /\ cpc = "render"
    /\ printed' = printed \o Render(args, shown)
    /\ cpc' = "close"
    /\ UNCHANGED <<args, parsed, client, fetches, filter_runs, fetched, shown, exit_code, filterVars, treeVars, evalVars, labelVars, mainVars>>

\* the with statement leaves the client and the command returns
CloseStep ==
    /\ cpc = "close"
    /\ client' = "closed"
    /\ exit_code' = Num(0)
    /\ cpc' = "exit"
    /\ UNCHANGED <<args, parsed, fetches, filter_runs, fetched, shown, printed, filterVars, treeVars, evalVars, labelVars, mainVars>>

CmdNext ==
    \/ ParseOk
    \/ ParseFails
    \/ GetClientNoKey
    \/ GetClient
    \/ FetchOk
    \/ FetchFails
    \/ FilterStep
    \/ LimitStep
    \/ RenderStep
    \/ CloseStep

SpecCmd == CmdInit /\ [][CmdNext]_vars

(***************************************************************************)
(* One call of _parse_label.                                               *)
(***************************************************************************)
\* every string of at most MaxLabelLen characters, each a letter, the
\* separator or a blank
LabelInputs == UNION { [1..n -> {"e", "=", " "}] : n \in 0..MaxLabelLen }

LabelInit ==
    /\ label_input \in LabelInputs
    /\ label_result = None
    /\ lpc = "input"
    /\ FilterIdle
    /\ TreeIdle
    /\ EvalIdle
    /\ CmdIdle
    /\ MainIdle

\* key, value = _parse_label(label_str), or the BadParameter it raises
ParseLabel ==
    /\ lpc = "input"
    /\ label_result' = _parse_label(label_input)
    /\ lpc' = "returned"
    /\ UNCHANGED <<label_input, filterVars, treeVars, evalVars, cmdVars, mainVars>>

SpecLabel == LabelInit /\ [][ParseLabel]_vars

(***************************************************************************)
(* The provider-aware top-level commands of cli/main.py: traces list/get   *)
(* and sessions list/get/search.  Each reads config.default_provider and   *)
(* calls the command of one provider, which then runs to its end: an AIOBS *)
(* command by the actions of the session commands above, a Langfuse        *)
(* command by the actions below.  A provider name is a plain string here,  *)
(* the commands only compare it for equality.                              *)
(***************************************************************************)
\* the invocations: the command group and command, whether the keys of either
\* provider are configured, and the options handed on to the provider command
MainArgs ==
    { [ group |-> t[1], cmd |-> t[2], api_key |-> k, langfuse_keys |-> lk, limit |-> l,
        ids_only |-> i, output_format |-> o, crit |-> in[1], label |-> in[2].label,
        after |-> in[2].after, before |-> in[2].before ] :
          t \in {<<"traces", "list">>, <<"traces", "get">>, <<"sessions", "list">>,
                 <<"sessions", "get">>, <<"sessions", "search">>},
          k \in BOOLEAN, lk \in BOOLEAN, l \in {None, Num(1)}, i \in BOOLEAN,
          o \in {"table", "json"},
          in \in { <<NoCriteria, NoOptions>>,
                   <<[NoCriteria EXCEPT !.has_errors = TRUE], NoOptions>>,
                   <<NoCriteria, [NoOptions EXCEPT !.label = List(<<LabelStrings.env_prod>>)]>>,
                   <<NoCriteria, [NoOptions EXCEPT !.label = List(<<LabelStrings.no_equals>>)]>> } }

MainInit ==
    /\ args \in { a \in MainArgs :
                    /\ a.cmd /= "search" => (a.crit = NoCriteria /\ a.label = None)
                    /\ a.cmd = "get" => (a.limit = None /\ ~a.ids_only) }
    /\ default_provider \in {"aiobs", "langfuse", "Langfuse", "AIOBS", ""}
    /\ delegated = <<>>
    /\ parsed = None
    /\ cpc = "route"
    /\ client = "none"
    /\ fetches = 0
    /\ filter_runs = 0
    /\ fetched = None
    /\ shown = None
    /\ printed = <<>>
    /\ exit_code = None
    /\ FilterIdle
    /\ TreeIdle
    /\ EvalIdle
    /\ LabelIdle

\* traces_list, traces_get
TracesCommand ==
    /\ cpc = "route"
    /\ args.group = "traces"
    /\ IF default_provider = "langfuse"
       THEN /\ delegated' = Append(delegated, [ provider |-> "langfuse",
                    command |-> IF args.cmd = "list" THEN "list_traces" ELSE "get_trace",
                    limit |-> IF args.cmd = "list" THEN args.limit ELSE None ])
            /\ cpc' = "langfuse_start"
            /\ UNCHANGED <<printed, exit_code>>
       ELSE /\ printed' = printed \o << [kind |-> "warning", text |-> "does not support traces."],
                                        [kind |-> "hint", text |-> "Switch to langfuse"] >>
            /\ exit_code' = Num(1)
            /\ cpc' = "exit"
            /\ UNCHANGED delegated
    /\ UNCHANGED <<args, parsed, client, fetches, filter_runs, fetched, shown, default_provider, filterVars, treeVars, evalVars, labelVars>>

\* sessions_list, sessions_get
SessionsCommand ==
    /\ cpc = "route"
    /\ args.group = "sessions"
    /\ args.cmd \in {"list", "get"}
    /\ IF default_provider = "langfuse"
       THEN /\ delegated' = Append(delegated, [ provider |-> "langfuse",
                    command |-> IF args.cmd = "list" THEN "list_sessions" ELSE "get_session",
                    limit |-> IF args.cmd = "get" THEN None
                              ELSE IF Truthy(args.limit) THEN args.limit ELSE Num(50) ])
            /\ cpc' = "langfuse_start"
       ELSE /\ delegated' = Append(delegated, [ provider |-> "aiobs",
                    command |-> IF args.cmd = "list" THEN "list_sessions" ELSE "get_session",
                    limit |-> args.limit ])
            /\ cpc' = "start"
    /\ UNCHANGED <<args, parsed, client, fetches, filter_runs, fetched, shown, printed, exit_code, default_provider, filterVars, treeVars, evalVars, labelVars>>

\* Mutation of sessions_search: like sessions_list, every provider value but
\* langfuse is routed to the AIOBS command.
sessions_search_else_aiobs ==
    /\ cpc = "route"
    /\ args.group = "sessions"
    /\ args.cmd = "search"
    /\ IF default_provider /= "langfuse"
       THEN /\ delegated' = Append(delegated, [ provider |-> "aiobs",
                    command |-> "search_sessions", limit |-> args.limit ])
            /\ cpc' = "parse"
            /\ UNCHANGED <<printed, exit_code>>
       ELSE /\ printed' = printed \o << [kind |-> "warning", text |-> "does not support session search."],
                                        [kind |-> "hint", text |-> "Switch to aiobs"],
                                        [kind |-> "hint", text |-> "Or use explicit"] >>
            /\ exit_code' = Num(1)
            /\ cpc' = "exit"
            /\ UNCHANGED delegated
    /\ UNCHANGED <<args, parsed, client, fetches, filter_runs, fetched, shown, default_provider, filterVars, treeVars, evalVars, labelVars>>

sessions_search ==
    /\ cpc = "route"
    /\ args.group = "sessions"
    /\ args.cmd = "search"
    /\ IF default_provider = "aiobs"
       THEN /\ delegated' = Append(delegated, [ provider |-> "aiobs",
                    command |-> "search_sessions", limit |-> args.limit ])
            /\ cpc' = "parse"
            /\ UNCHANGED <<printed, exit_code>>
       ELSE /\ printed' = printed \o << [kind |-> "warning", text |-> "does not support session search."],
                                        [kind |-> "hint", text |-> "Switch to aiobs"],
                                        [kind |-> "hint", text |-> "Or use explicit"] >>
            /\ exit_code' = Num(1)
            /\ cpc' = "exit"
            /\ UNCHANGED delegated
    /\ UNCHANGED <<args, parsed, client, fetches, filter_runs, fetched, shown, default_provider, filterVars, treeVars, evalVars, labelVars>>

\* langfuse._get_client: a key is missing
LangfuseGetClientNoKeys ==
    /\ cpc = "langfuse_start"
    /\ ~args.langfuse_keys
    /\ printed' = Append(printed, [kind |-> "error", text |-> "Langfuse API keys not configured."])
    /\ exit_code' = Num(1)
    /\ cpc' = "exit"
    /\ UNCHANGED <<args, parsed, client, fetches, filter_runs, fetched, shown, filterVars, treeVars, evalVars, labelVars, mainVars>>

\* langfuse._get_client returns a client and the with statement enters it
LangfuseGetClient ==
    /\ cpc = "langfuse_start"
    /\ args.langfuse_keys
    /\ client' = "open"
    /\ cpc' = "langfuse_fetch"
    /\ UNCHANGED <<args, parsed, fetches, filter_runs, fetched, shown, printed, exit_code, filterVars, treeVars, evalVars, labelVars, mainVars>>

\* the Langfuse client returns the traces, the trace, the sessions or the
\* session, and the output branch prints: the ids, the JSON or the table
LangfuseFetchOk ==
    /\ cpc = "langfuse_fetch"
    /\ \E data \in {<<>>, <<"t1">>, <<"t1", "t2">>} :
          /\ args.cmd = "get" => Len(data) = 1
          /\ fetched' = [data |-> data]
          /\ shown' = [data |-> data]
          /\ printed' = printed \o
                (IF args.cmd = "list" /\ args.ids_only
                 THEN [i \in DOMAIN data |-> [kind |-> "id", id |-> data[i]]]
                 ELSE << [kind |-> args.output_format, command |-> delegated[1].command, data |-> data] >>)
    /\ fetches' = fetches + 1
    /\ cpc' = "close"
    /\ UNCHANGED <<args, parsed, client, filter_runs, exit_code, filterVars, treeVars, evalVars, labelVars, mainVars>>

\* the Langfuse client raises: the with statement leaves the client, the handler reports
LangfuseFetchFails ==
    /\ cpc = "langfuse_fetch"
    /\ \E e \in {"Authentication failed:", "Error:"}
                 \cup (IF delegated[1].command = "get_trace" THEN {"Trace not found:"} ELSE {})
                 \cup (IF delegated[1].command = "get_session" THEN {"Session not found:"} ELSE {}) :
          printed' = Append(printed, [kind |-> "error", text |-> e])
    /\ fetches' = fetches + 1
    /\ client' = "closed"
    /\ exit_code' = Num(1)
    /\ cpc' = "exit"
    /\ UNCHANGED <<args, parsed, filter_runs, fetched, shown, filterVars, treeVars, evalVars, labelVars, mainVars>>

MainNext ==
    \/ TracesCommand
    \/ SessionsCommand
    \/ sessions_search
    \/ LangfuseGetClientNoKeys
    \/ LangfuseGetClient
    \/ LangfuseFetchOk
    \/ LangfuseFetchFails
    \/ CmdNext

SpecMain == MainInit /\ [][MainNext]_vars

(***************************************************************************)
(* Properties of _filter_sessions.                                         *)
(***************************************************************************)
\* c with every criterion but f reset to its default
Only(c, f) == [NoCriteria EXCEPT ![f] = c[f]]

\* c with criterion f reset to its default
Without(c, f) == [c EXCEPT ![f] = NoCriteria[f]]

\* C1: every Event and every FunctionEvent of the response returned by
\* _filter_sessions has the session_id of a session of the returned sessions.
C1_EventSessionConsistency ==
    fpc = "filtered" =>
        /\ \A i \in DOMAIN filtered.events :
              filtered.events[i].session_id \in SessionIds(filtered.sessions)
        /\ \A i \in DOMAIN filtered.function_events :
              filtered.function_events[i].session_id \in SessionIds(filtered.sessions)

\* a filter run with a criterion that removed one session together with its event
\* and kept another session
C1_Witness ==
    /\ fpc = "filtered"
    /\ Supplied(criteria) /= {}
    /\ filtered.sessions /= <<>>
    /\ \E i \in DOMAIN response.sessions :
          /\ response.sessions[i] \notin Range(filtered.sessions)
          /\ \E j \in DOMAIN response.events :
                /\ response.events[j].session_id = response.sessions[i].id
                /\ response.events[j] \notin Range(filtered.events)

\* C2: a session of the input is in the result exactly when it is in the result
\* of every supplied criterion applied alone: the result of a combination is the
\* intersection of the single-criterion results, in input order.
C2_AndSemantics ==
    fpc = "filtered" =>
        /\ LET alone == [f \in Supplied(criteria) |->
                           Range(_filter_sessions(response, Only(criteria, f)).sessions)]
           IN  \A i \in DOMAIN response.sessions :
                  (response.sessions[i] \in Range(filtered.sessions))
                  <=> (\A f \in Supplied(criteria) : response.sessions[i] \in alone[f])
        /\ Range(filtered.sessions) \subseteq Range(response.sessions)
        /\ \A i, j \in DOMAIN filtered.sessions :
              i < j => \E k, l \in DOMAIN response.sessions :
                          /\ k < l
                          /\ response.sessions[k] = filtered.sessions[i]
                          /\ response.sessions[l] = filtered.sessions[j]

\* two criteria are supplied; one session passes both and is kept, another passes
\* one of them alone and is removed by the other
C2_Witness ==
    /\ fpc = "filtered"
    /\ Cardinality(Supplied(criteria)) = 2
    /\ Len(filtered.sessions) = 1
    /\ \E i \in DOMAIN response.sessions :
          /\ response.sessions[i] \notin Range(filtered.sessions)
          /\ \E f \in Supplied(criteria) :
                response.sessions[i]
                    \in Range(_filter_sessions(response, Only(criteria, f)).sessions)

\* C3: the ids returned are ids of the input, and the result with a criterion
\* added is contained in the result without it.
C3_MonotoneNarrowing ==
    fpc = "filtered" =>
        /\ SessionIds(filtered.sessions) \subseteq SessionIds(response.sessions)
        /\ \A f \in Supplied(criteria) :
              SessionIds(filtered.sessions)
                  \subseteq SessionIds(_filter_sessions(response, Without(criteria, f)).sessions)

\* two criteria are supplied, and without one of them the result is strictly larger
C3_Witness ==
    /\ fpc = "filtered"
    /\ Cardinality(Supplied(criteria)) = 2
    /\ filtered.sessions /= <<>>
    /\ \E f \in Supplied(criteria) :
          Len(_filter_sessions(response, Without(criteria, f)).sessions)
              > Len(filtered.sessions)

(***************************************************************************)
(* Properties of _build_observation_tree.                                  *)
(***************************************************************************)
\* the ids of the nodes of a given kind at the top level of the tree, in order
RECURSIVE TopIds(_, _)
TopIds(nodes, kind) ==
    IF nodes = <<>> THEN <<>>
    ELSE (IF Head(nodes).kind = kind THEN <<Head(nodes).id>> ELSE <<>>)
         \o TopIds(Tail(nodes), kind)

\* the bare ids of an observation list, in order
RECURSIVE BareIds(_)
BareIds(obs_list) ==
    IF obs_list = <<>> THEN <<>>
    ELSE (IF Head(obs_list).t = "str" THEN <<Head(obs_list).v>> ELSE <<>>)
         \o BareIds(Tail(obs_list))

\* C4: a full record whose parent_observation_id is not the id of any record of
\* the input is a root of the forest.
C4_DanglingParentIsRoot ==
    tpc = "built" =>
        \A i \in DOMAIN observations :
            \/ observations[i].t /= "obs"
            \/ \E p \in FullIds(observations) :
                  observations[i].v.parent_observation_id = Str(p)
            \/ \E k \in DOMAIN tree :
                  tree[k].kind = "obs" /\ tree[k].id = observations[i].v.id

\* C5: in a list that mixes full records and bare ids, every bare id is rendered
\* as a flat entry of the tree.
C5_MixedKeepsReferences ==
    (/\ tpc = "built"
     /\ FullObservations(observations) /= <<>>
     /\ BareIds(observations) /= <<>>)
    => TopIds(tree, "ref") = BareIds(observations)

\* a chain: full records only, the first without parent, each later one the
\* child of the record before it
IsChain(obs_list) ==
    /\ obs_list /= <<>>
    /\ \A i \in DOMAIN obs_list : obs_list[i].t = "obs"
    /\ obs_list[1].v.parent_observation_id = None
    /\ \A i \in 2..Len(obs_list) :
          obs_list[i].v.parent_observation_id = Str(obs_list[i - 1].v.id)

\* the linear chain of the ids, each node with the next as its only child
RECURSIVE ChainNode(_)
ChainNode(ids) ==
    [ kind |-> "obs", id |-> Head(ids),
      children |-> IF Len(ids) = 1 THEN <<>> ELSE << ChainNode(Tail(ids)) >> ]

\* C8: N full records that form one chain give one root, under which the N
\* records are nested linearly in input order.
C8_ChainIsLinear ==
    (tpc = "built" /\ IsChain(observations)) =>
        tree = << ChainNode([i \in DOMAIN observations |-> observations[i].v.id]) >>

\* a chain of three records has been built
C8_Witness ==
    /\ tpc = "built"
    /\ IsChain(observations)
    /\ Len(observations) >= 3
    /\ Len(tree) = 1

\* C9: a list of N bare ids gives no node built from a record and N flat
\* entries, one per id, in input order.
C9_ReferenceOnlyFallback ==
    (tpc = "built" /\ \A i \in DOMAIN observations : observations[i].t = "str") =>
        /\ Len(tree) = Len(observations)
        /\ \A k \in DOMAIN tree :
              tree[k] = [kind |-> "ref", id |-> observations[k].v, children |-> <<>>]

\* a list of two different bare ids has been rendered
C9_Witness ==
    /\ tpc = "built"
    /\ Len(observations) >= 2
    /\ \A i \in DOMAIN observations : observations[i].t = "str"
    /\ observations[1] /= observations[2]
    /\ Len(tree) = Len(observations)

(***************************************************************************)
(* Properties of _eval_is_failed.                                          *)
(***************************************************************************)
\* the field is present in the mapping and holds the boolean false
FieldIsFalse(e, key) == key \in DOMAIN e.v /\ e.v[key].t = "bool" /\ e.v[key].v = FALSE

\* C10: _eval_is_failed returns true exactly for a mapping in which passed,
\* result or success is the boolean false or the lowercased string of status is
\* failed, fail or error; it returns false for every other mapping and for every
\* value that is no mapping.
C10_EvalIsFailed ==
    epc = "returned" =>
        (eval_failed <=>
            /\ evaluation.t = "dict"
            /\ \/ FieldIsFalse(evaluation, "passed")
               \/ FieldIsFalse(evaluation, "result")
               \/ FieldIsFalse(evaluation, "success")
               \/ /\ "status" \in DOMAIN evaluation.v
                  /\ Lower(PyStr(evaluation.v["status"]))
                        \in { <<"f","a","i","l","e","d">>, <<"f","a","i","l">>,
                              <<"e","r","r","o","r">> })

\* a mapping reported failed through an upper case status alone, its other
\* fields holding 0 and true
C10_Witness ==
    /\ epc = "returned"
    /\ eval_failed
    /\ evaluation.t = "dict"
    /\ DOMAIN evaluation.v = EvalKeys
    /\ evaluation.v["status"] = Str(<<"F","A","I","L","E","D">>)
    /\ evaluation.v["passed"] = Num(0)
    /\ evaluation.v["result"] = Bool(TRUE)
    /\ evaluation.v["success"] = Bool(TRUE)

(***************************************************************************)
(* Properties of the truncation to --limit in the list and search          *)
(* commands.                                                               *)
(***************************************************************************)
\* the session list of the command before the limit is applied
Untruncated ==
    IF args.cmd = "search"
    THEN _filter_sessions(fetched, SearchCriteria(args, parsed)).sessions
    ELSE fetched.sessions

\* the limit has been applied in a list or search command
LimitApplied ==
    /\ cpc \in {"render", "close"} \/ (cpc = "exit" /\ exit_code = Num(0))
    /\ args.cmd \in {"list", "search"}
    /\ args.limit.t = "int"

\* C6: a session list no longer than the limit is left unchanged, and a limit
\* of 0 gives an empty session list and no error.
C6_TruncationShorterAndZero ==
    (LimitApplied /\ args.limit.v >= 0) =>
        /\ Len(Untruncated) <= args.limit.v => shown.sessions = Untruncated
        /\ args.limit.v = 0 => shown.sessions = <<>>

\* C7: with a limit n >= 1 the list and search commands display exactly the
\* first min(n, L) sessions of the L sessions they hold, in their order.
C7_DisplaysPrefix ==
    (LimitApplied /\ cpc = "exit" /\ args.limit.v >= 1) =>
        LET k == Min(args.limit.v, Len(Untruncated))
        IN  IF args.ids_only
            THEN /\ Len(printed) = k
                 /\ \A i \in 1..k : printed[i] = [kind |-> "id", id |-> Untruncated[i].id]
            ELSE IF args.output_format = "json"
            THEN /\ Len(printed) = 1
                 /\ printed[1].kind = "json"
                 /\ printed[1].sessions = SubSeq(Untruncated, 1, k)
            ELSE /\ Len(printed) = 1
                 /\ IF k = 0 THEN printed[1].kind = "message"
                    ELSE /\ printed[1].kind = "table"
                         /\ Len(printed[1].rows) = k
                         /\ \A i \in 1..k :
                               printed[1].rows[i].id = IdCell(Untruncated[i].id)

\* a search whose query kept two sessions printed the first of them under --limit 1
C7_Witness ==
    /\ cpc = "exit"
    /\ exit_code = Num(0)
    /\ args.cmd = "search"
    /\ Supplied(SearchCriteria(args, parsed)) = {"query"}
    /\ args.limit = Num(1)
    /\ ~args.ids_only
    /\ args.output_format = "table"
    /\ Len(Untruncated) = 2
    /\ printed[1].kind = "table"
    /\ Len(printed[1].rows) = 1

(***************************************************************************)
(* Properties of the single criteria of _filter_sessions.                  *)
(***************************************************************************)
\* some Event or FunctionEvent of the response carries the id of the session
\* and an error that is a non-empty string
HasNonEmptyError(session, resp) ==
    \/ \E i \in DOMAIN resp.events :
          /\ resp.events[i].session_id = session.id
          /\ resp.events[i].error.t = "str"
          /\ resp.events[i].error.v /= <<>>
    \/ \E i \in DOMAIN resp.function_events :
          /\ resp.function_events[i].session_id = session.id
          /\ resp.function_events[i].error.t = "str"
          /\ resp.function_events[i].error.v /= <<>>

\* the run applied the criteria of the dimension dims alone
OneCriterion(dims) == fpc = "filtered" /\ Supplied(criteria) /= {} /\ Supplied(criteria) \subseteq dims

\* C11: with has_errors alone, the sessions returned are exactly the sessions
\* with an Event or FunctionEvent of their id that has a non-empty error, and the
\* events and function events returned are exactly those of these sessions.
C11_HasErrorsOnly ==
    OneCriterion({"has_errors"}) =>
        LET Erring(s) == HasNonEmptyError(s, response)
            kept == SelectSeq(response.sessions, Erring)
            OfKept(e) == e.session_id \in SessionIds(kept)
        IN  /\ filtered.sessions = kept
            /\ filtered.events = SelectSeq(response.events, OfKept)
            /\ filtered.function_events = SelectSeq(response.function_events, OfKept)

\* has_errors kept one of two sessions for the error of its function event and
\* removed the other session together with its event
C11_Witness ==
    /\ OneCriterion({"has_errors"})
    /\ Len(response.sessions) = 2
    /\ Len(filtered.sessions) = 1
    /\ Len(filtered.function_events) = 1
    /\ Len(response.events) = 1
    /\ filtered.events = <<>>
    /\ response.events[1].session_id \in SessionIds(response.sessions)

\* C12: under the date criteria a session is kept exactly when its started_at is
\* at or after every supplied `after` and at or before every supplied `before`,
\* whatever the values of the bounds, 0 included.
C12_DateBoundsInclusive ==
    OneCriterion({"after", "before"}) =>
        LET InBounds(s) ==
                /\ criteria.after /= None => s.started_at >= criteria.after.v
                /\ criteria.before /= None => s.started_at <= criteria.before.v
        IN  filtered.sessions = SelectSeq(response.sessions, InBounds)

\* every (key, value) pair of the filter is a label of the session, key and
\* value equal character by character
HasEveryLabel(session, pairs) ==
    \A i \in DOMAIN pairs :
        /\ pairs[i][1] \in DOMAIN session.labels
        /\ session.labels[pairs[i][1]] = Str(pairs[i][2])

\* C13: under the label criterion a session is kept exactly when its labels
\* hold every given key with an exactly equal value; a key or value that differs
\* in letter case only, or a value that contains the filter value, is no match.
C13_LabelsExact ==
    OneCriterion({"labels"}) =>
        LET Labelled(s) == HasEveryLabel(s, criteria.labels.v)
        IN  filtered.sessions = SelectSeq(response.sessions, Labelled)

\* a session was removed although each key of the filter is one of its label
\* keys and its value contains the filter value, in one pair up to letter case
C13_Witness ==
    /\ OneCriterion({"labels"})
    /\ \E i \in DOMAIN response.sessions :
          LET s == response.sessions[i]
              pairs == criteria.labels.v
          IN  /\ s \notin Range(filtered.sessions)
              /\ \A k \in DOMAIN pairs :
                    /\ pairs[k][1] \in DOMAIN s.labels
                    /\ Contains(Lower(pairs[k][2]), Lower(s.labels[pairs[k][1]].v))
              /\ \E k \in DOMAIN pairs :
                    /\ s.labels[pairs[k][1]].v /= pairs[k][2]
                    /\ Lower(s.labels[pairs[k][1]].v) = Lower(pairs[k][2])

\* the lowercased query is a substring of the lowercased id, name, some label
\* value or some metadata value of the session
QueryInValues(session, q) ==
    \/ Contains(Lower(q), Lower(session.id))
    \/ Contains(Lower(q), Lower(session.name))
    \/ \E k \in DOMAIN session.labels : Contains(Lower(q), Lower(PyStr(session.labels[k])))
    \/ \E k \in DOMAIN session.meta : Contains(Lower(q), Lower(PyStr(session.meta[k])))

\* C14: under the free-text criterion a session is kept exactly when the
\* lowercased query is a substring of its lowercased id, name, a label value or
\* a metadata value; label keys and metadata keys are not searched.
C14_QueryInValues ==
    OneCriterion({"query"}) =>
        LET Hit(s) == QueryInValues(s, criteria.query.v)
        IN  filtered.sessions = SelectSeq(response.sessions, Hit)

\* a session was removed although the query is part of one of its label keys,
\* up to letter case
C14_Witness ==
    /\ OneCriterion({"query"})
    /\ \E i \in DOMAIN response.sessions :
          LET s == response.sessions[i]
          IN  /\ s \notin Range(filtered.sessions)
              /\ \E k \in DOMAIN s.labels : Contains(Lower(criteria.query.v), Lower(k))

\* an Event or FunctionEvent of the response carries the id of the session and a
\* provider name equal to p up to letter case
ProviderOf(session, resp, p) ==
    \/ \E i \in DOMAIN resp.events :
          /\ resp.events[i].session_id = session.id
          /\ Lower(resp.events[i].provider) = Lower(p)
    \/ \E i \in DOMAIN resp.function_events :
          /\ resp.function_events[i].session_id = session.id
          /\ Lower(resp.function_events[i].provider) = Lower(p)

\* C15: under the provider criterion a session is kept exactly when an Event or
\* FunctionEvent with its id has a provider name equal to the filter ignoring
\* case; the events of other sessions never make it match.
C15_ProviderEqualIgnoringCase ==
    OneCriterion({"provider"}) =>
        LET Provided(s) == ProviderOf(s, response, criteria.provider.v)
        IN  filtered.sessions = SelectSeq(response.sessions, Provided)

\* one session was kept through an event whose provider differs from the filter
\* in letter case; another was removed while an event of a foreign session id
\* has the provider
C15_Witness ==
    /\ OneCriterion({"provider"})
    /\ Len(response.sessions) = 2
    /\ Len(filtered.sessions) = 1
    /\ \E i \in DOMAIN response.events :
          /\ response.events[i].session_id = filtered.sessions[1].id
          /\ response.events[i].provider /= criteria.provider.v
          /\ response.events[i].provider /= Lower(criteria.provider.v)
    /\ \E i \in DOMAIN response.events :
          /\ response.events[i].session_id \notin SessionIds(response.sessions)
          /\ Lower(response.events[i].provider) = Lower(criteria.provider.v)

\* an Event of the response carries the id of the session and a request with a
\* model field whose lowercased string contains the lowercased m
ModelOf(session, resp, m) ==
    \E i \in DOMAIN resp.events :
        /\ resp.events[i].session_id = session.id
        /\ resp.events[i].request.t = "dict"
        /\ "model" \in DOMAIN resp.events[i].request.v
        /\ Contains(Lower(m), Lower(PyStr(resp.events[i].request.v["model"])))

\* C16: under the model criterion a session is kept exactly when an Event with
\* its id (FunctionEvents are not looked at) has a request with a model field
\* whose lowercased string contains the lowercased filter; an Event without
\* request or without model field never matches.
C16_ModelSubstring ==
    OneCriterion({"model"}) =>
        LET Modelled(s) == ModelOf(s, response, criteria.model.v)
        IN  filtered.sessions = SelectSeq(response.sessions, Modelled)

\* one session was kept through the model of its event, another was removed
\* whose only event has no request
C16_Witness ==
    /\ OneCriterion({"model"})
    /\ Len(response.sessions) = 2
    /\ Len(filtered.sessions) = 1
    /\ Len(response.events) = 2
    /\ \E i \in DOMAIN response.events :
          /\ response.events[i].session_id \in SessionIds(response.sessions)
          /\ response.events[i].session_id /= filtered.sessions[1].id
          /\ response.events[i].request = None

\* a FunctionEvent of the response carries the id of the session and a name or
\* a module that contains f ignoring case
FunctionOf(session, resp, f) ==
    \E i \in DOMAIN resp.function_events :
        LET e == resp.function_events[i]
        IN  /\ e.session_id = session.id
            /\ \/ (e.name.t = "str" /\ Contains(Lower(f), Lower(e.name.v)))
               \/ (e.module.t = "str" /\ Contains(Lower(f), Lower(e.module.v)))

\* C17: under the function criterion a session is kept exactly when a
\* FunctionEvent with its id has a name or a module that contains the filter
\* ignoring case; a missing name or module is a non-match.
C17_FunctionNameOrModule ==
    OneCriterion({"function"}) =>
        LET Called(s) == FunctionOf(s, response, criteria.function.v)
        IN  filtered.sessions = SelectSeq(response.sessions, Called)

\* both sessions were kept: one through the name of a function event that has
\* no module, the other through the module of a function event that has no name
C17_Witness ==
    /\ OneCriterion({"function"})
    /\ Len(filtered.sessions) = 2
    /\ \E i, j \in DOMAIN response.function_events :
          /\ response.function_events[i].module = None
          /\ response.function_events[j].name = None

(***************************************************************************)
(* Properties of the fields _filter_sessions passes through.               *)
(***************************************************************************)
\* C18: for every combination of criteria, trace_tree, enh_prompt_traces,
\* generated_at and version of the returned response are those of the input,
\* whatever sessions were removed.
C18_AuxiliaryFieldsPassThrough ==
    fpc = "filtered" =>
        /\ filtered.trace_tree = response.trace_tree
        /\ filtered.enh_prompt_traces = response.enh_prompt_traces
        /\ filtered.generated_at = response.generated_at
        /\ filtered.version = response.version

\* two criteria removed every session, the session of the root of the trace
\* tree among them, and its event; the trace tree still holds the root
C18_Witness ==
    /\ fpc = "filtered"
    /\ Cardinality(Supplied(criteria)) = 2
    /\ filtered.sessions = <<>>
    /\ filtered.events = <<>>
    /\ response.events /= <<>>
    /\ \E k \in DOMAIN filtered.trace_tree :
          /\ filtered.trace_tree[k].session_id \in SessionIds(response.sessions)
          /\ filtered.trace_tree[k].session_id = response.events[1].session_id

(***************************************************************************)
(* Properties of the errors the session commands report before a fetch.    *)
(***************************************************************************)
\* the label string has no "=", the format _parse_label rejects
LabelRejected(label_str) == \A i \in DOMAIN label_str : label_str[i] /= "="

\* the date string matches none of the four formats of _parse_date
DateRejected(date_str) == \A k \in DOMAIN DateFormats : Strptime(date_str, DateFormats[k]) = {}

\* the search invocation was given a label string or a date string in a
\* rejected format
RejectedOptionGiven ==
    /\ cpc /= "idle"
    /\ args.cmd = "search"
    /\ \/ args.label /= None /\ \E i \in DOMAIN args.label.v : LabelRejected(args.label.v[i])
       \/ args.after /= None /\ DateRejected(args.after.v)
       \/ args.before /= None /\ DateRejected(args.before.v)

\* C19: a search invocation with a label string or a date string in a rejected
\* format creates no client, fetches nothing, runs no filter, prints nothing but
\* the usage error, and ends with a usage error and a non-zero exit code.
C19_RejectedOptionIsUsageError ==
    RejectedOptionGiven =>
        /\ client = "none"
        /\ fetches = 0
        /\ filter_runs = 0
        /\ \A i \in DOMAIN printed : printed[i].kind = "usage_error"
        /\ cpc = "exit" =>
              /\ printed /= <<>>
              /\ exit_code.t = "int"
              /\ exit_code.v /= 0

\* what a command without API key does: no client, no fetch, and at its end the
\* message alone and exit code 1
NoKeyOutcome ==
    /\ client = "none"
    /\ fetches = 0
    /\ cpc = "exit" =>
          /\ printed = << [kind |-> "error", text |-> "No API key configured."] >>
          /\ exit_code = Num(1)

\* C20 as stated: with no API key configured, the list, get and search commands
\* print that no API key is configured and exit with code 1, without
\* constructing a client and without a fetch.
C20_NoApiKey ==
    (cpc /= "idle" /\ ~args.api_key) => NoKeyOutcome

\* C20, amended: with no API key configured, the list and get commands, and
\* the search command whose label and date options parse, print that no API key
\* is configured and exit with code 1, without constructing a client and
\* without a fetch.
C20_NoApiKeyOnceParsed ==
    (/\ cpc /= "idle"
     /\ ~args.api_key
     /\ ~(args.cmd = "search" /\ ParseOptions(args).raised)) => NoKeyOutcome

\* a search without API key whose label parsed has ended with the message and
\* exit code 1
C20_Witness ==
    /\ cpc = "exit"
    /\ args.cmd = "search"
    /\ ~args.api_key
    /\ parsed /= None
    /\ parsed.parsed_labels /= <<>>
    /\ printed = << [kind |-> "error", text |-> "No API key configured."] >>
    /\ exit_code = Num(1)
    /\ client = "none"
    /\ fetches = 0

(***************************************************************************)
(* Properties of the fetch of the session commands.                        *)
(***************************************************************************)
\* the fetch of the command raised: a fetch was made and no response came back
FetchRaised == cpc = "exit" /\ fetches = 1 /\ fetched = None

\* C21: when the fetch raises an authentication, a not-found or another
\* upstream error, the command prints that error report alone, renders no
\* session data and exits with code 1; exit code 0 is reached only after a
\* completed fetch whose response was rendered.
C21_FetchErrorExitsOne ==
    /\ FetchRaised =>
          /\ Len(printed) = 1
          /\ printed[1].kind = "error"
          /\ printed[1].text \in FetchErrors(args.cmd)
          /\ shown = None
          /\ exit_code = Num(1)
    /\ (cpc /= "idle" /\ exit_code = Num(0)) =>
          /\ fetches = 1
          /\ fetched /= None
          /\ printed = Render(args, shown)

\* a get command whose fetch raised SessionNotFoundError has ended with the
\* report and exit code 1
C21_Witness ==
    /\ FetchRaised
    /\ args.cmd = "get"
    /\ printed = << [kind |-> "error", text |-> "Session not found:"] >>
    /\ exit_code = Num(1)

\* C22: every list, get and search invocation makes at most one fetch, and the
\* filter logic runs at most once, only in search and only after that fetch
\* has returned a response.
C22_OneFetchThenOneFilter ==
    cpc /= "idle" =>
        /\ fetches <= 1
        /\ filter_runs <= 1
        /\ filter_runs = 1 =>
              /\ args.cmd = "search"
              /\ fetches = 1
              /\ fetched /= None
        /\ cpc \in {"filter", "limit", "render", "close"} => fetches = 1 /\ fetched /= None

\* a search has returned after its one fetch and its one filter run
C22_Witness ==
    /\ cpc = "exit"
    /\ args.cmd = "search"
    /\ fetches = 1
    /\ filter_runs = 1
    /\ exit_code = Num(0)

(***************************************************************************)
(* Properties of the client of the session commands.                       *)
(***************************************************************************)
\* C23: the client acquired for the fetch is released when the command
\* completes or fails, and it is already released when the filter logic and
\* the rendering run.
C23_ReleasedBeforeFilterAndRender ==
    /\ (cpc = "exit" /\ fetches = 1) => client = "closed"
    /\ cpc \in {"filter", "render"} => client = "closed"

(***************************************************************************)
(* Properties of _parse_label.                                             *)
(***************************************************************************)
\* the text of the label string before and after its first "="
BeforeFirstEq(s) == SubSeq(s, 1, (CHOOSE i \in DOMAIN s : s[i] = "=" /\ \A j \in 1..(i - 1) : s[j] /= "=") - 1)
AfterFirstEq(s) == SubSeq(s, Len(BeforeFirstEq(s)) + 2, Len(s))

\* t is s without the whitespace at its two ends
IsStripOf(t, s) ==
    \E i, j \in 0..Len(s) :
        /\ i + j <= Len(s)
        /\ t = SubSeq(s, i + 1, Len(s) - j)
        /\ \A k \in 1..i : s[k] \in Whitespace
        /\ \A k \in (Len(s) - j + 1)..Len(s) : s[k] \in Whitespace
        /\ t /= <<>> => (t[1] \notin Whitespace /\ t[Len(t)] \notin Whitespace)

\* C24 as stated: _parse_label rejects every label string without "=" with a
\* usage error, and for every other string returns as key the text before the
\* first "=" and as value all the text after it, further "=" included.
C24_SplitAtFirstEq ==
    lpc = "returned" =>
        IF LabelRejected(label_input)
        THEN label_result.raised
        ELSE /\ ~label_result.raised
             /\ label_result.value = <<BeforeFirstEq(label_input), AfterFirstEq(label_input)>>

\* C24, amended: _parse_label rejects every label string without "=" with a
\* usage error, and for every other string returns as key the text before the
\* first "=" and as value all the text after it, further "=" included, each
\* without the whitespace at its two ends.
C24_SplitAtFirstEqStripped ==
    lpc = "returned" =>
        IF LabelRejected(label_input)
        THEN label_result.raised
        ELSE /\ ~label_result.raised
             /\ IsStripOf(label_result.value[1], BeforeFirstEq(label_input))
             /\ IsStripOf(label_result.value[2], AfterFirstEq(label_input))

\* a label string with two "=" and a blank around its key was split: the value
\* holds the second "=", the key lost the blank
C24_Witness ==
    /\ lpc = "returned"
    /\ ~label_result.raised
    /\ Cardinality({i \in DOMAIN label_input : label_input[i] = "="}) = 2
    /\ \E i \in DOMAIN label_result.value[2] : label_result.value[2][i] = "="
    /\ label_result.value[1] /= BeforeFirstEq(label_input)
    /\ label_result.value[1] /= <<>>

(***************************************************************************)
(* Properties of the order and the termination of _build_observation_tree. *)
(***************************************************************************)
\* the place of the full record with this id in the observation list
PlaceOf(id) == CHOOSE i \in DOMAIN observations : observations[i].t = "obs" /\ observations[i].v.id = id

\* the nodes, and below each of them its children, follow the input order
RECURSIVE InInputOrder(_)
InInputOrder(nodes) ==
    /\ \A i, j \in DOMAIN nodes : i < j => PlaceOf(nodes[i].id) < PlaceOf(nodes[j].id)
    /\ \A i \in DOMAIN nodes : InInputOrder(nodes[i].children)

\* C25: in the forest built from a list with full records, the roots appear
\* in input order and the children of every node appear in input order.
C25_InputOrderKept ==
    (tpc = "built" /\ FullObservations(observations) /= <<>>) => InInputOrder(tree)

\* a tree was built whose root has two children and comes after them in the input
C25_Witness ==
    /\ tpc = "built"
    /\ Len(tree) = 1
    /\ Len(tree[1].children) = 2
    /\ PlaceOf(tree[1].id) = 3

\* the ids of the nodes of a forest, one entry for every node
RECURSIVE NodeIds(_)
NodeIds(nodes) ==
    IF nodes = <<>> THEN <<>>
    ELSE <<Head(nodes).id>> \o NodeIds(Head(nodes).children) \o NodeIds(Tail(nodes))

\* every full record of the input has at most one node in the tree
EachAtMostOnce ==
    \A id \in FullIds(observations) :
        Cardinality({i \in DOMAIN NodeIds(tree) : NodeIds(tree)[i] = id}) <= 1

\* C27: for every observation list whose full records have pairwise distinct
\* ids, records that are their own parent, parent cycles and dangling parents
\* included, _build_observation_tree returns, and every full record was added
\* at most once.
C27_TerminatesEachOnce ==
    <>(tpc = "built" /\ EachAtMostOnce)

\* the build returned for a list with a record that is its own parent and two
\* records that are each other's parent
C27_Witness ==
    /\ tpc = "built"
    /\ pending = <<>>
    /\ Len(observations) = 3
    /\ \E i, j, k \in DOMAIN observations :
          /\ i /= j /\ j /= k /\ i /= k
          /\ observations[i].t = "obs" /\ observations[j].t = "obs" /\ observations[k].t = "obs"
          /\ observations[i].v.parent_observation_id = Str(observations[i].v.id)
          /\ observations[j].v.parent_observation_id = Str(observations[k].v.id)
          /\ observations[k].v.parent_observation_id = Str(observations[j].v.id)

(***************************************************************************)
(* Properties of the response the search command renders.                  *)
(***************************************************************************)
\* C26: in the search command, the response handed to the renderer, after the
\* filter and after the --limit truncation, holds only events and function
\* events whose session_id is the id of one of its sessions.
C26_RenderedConsistent ==
    (args /= None /\ args.cmd = "search" /\ cpc \in {"render", "close"}) =>
        /\ \A i \in DOMAIN shown.events :
              shown.events[i].session_id \in SessionIds(shown.sessions)
        /\ \A i \in DOMAIN shown.function_events :
              shown.function_events[i].session_id \in SessionIds(shown.sessions)

(***************************************************************************)
(* Algebraic properties of _filter_sessions.                               *)
(***************************************************************************)
\* the criteria of c on the dimensions dims, the other dimensions not supplied
Restrict(c, dims) == [f \in DOMAIN c |-> IF f \in dims THEN c[f] ELSE NoCriteria[f]]

\* the sessions, the events and the function events of a response
Core(resp) == <<resp.sessions, resp.events, resp.function_events>>

\* C28: filtering composes.  For every split of the supplied criteria into two
\* sets on different dimensions, filtering by the first set and then filtering
\* the result by the second gives the same sessions, events and function
\* events as one call with all criteria; and filtering the result once more by
\* the same criteria changes nothing.
C28_FilterComposes ==
    fpc = "filtered" =>
        /\ \A dims \in SUBSET Supplied(criteria) :
              Core(_filter_sessions(_filter_sessions(response, Restrict(criteria, dims)),
                                    Restrict(criteria, Supplied(criteria) \ dims)))
                  = Core(filtered)
        /\ Core(_filter_sessions(filtered, criteria)) = Core(filtered)

\* two criteria were supplied, one of them alone removes a session, and the
\* result of both still holds a session and an event
C28_Witness ==
    /\ fpc = "filtered"
    /\ Cardinality(Supplied(criteria)) = 2
    /\ filtered.sessions /= <<>>
    /\ filtered.events /= <<>>
    /\ \E f \in Supplied(criteria) :
          /\ Len(_filter_sessions(response, Restrict(criteria, {f})).sessions) < Len(response.sessions)
          /\ Len(filtered.sessions)
                < Len(_filter_sessions(response, Restrict(criteria, Supplied(criteria) \ {f})).sessions)

\* C29: with no criterion supplied, _filter_sessions returns every session of
\* the input in order, and exactly those events and function events, in order,
\* whose session_id is the id of a session of the input; an event of no
\* session is left out.
C29_NoCriterionKeepsAll ==
    (fpc = "filtered" /\ Supplied(criteria) = {}) =>
        LET OfInputSession(e) == \E i \in DOMAIN response.sessions : response.sessions[i].id = e.session_id
        IN  /\ filtered.sessions = response.sessions
            /\ filtered.events = SelectSeq(response.events, OfInputSession)
            /\ filtered.function_events = SelectSeq(response.function_events, OfInputSession)

\* a call without criterion returned all sessions and left out an event of no
\* session while keeping another event
C29_Witness ==
    /\ fpc = "filtered"
    /\ Supplied(criteria) = {}
    /\ filtered.sessions /= <<>>
    /\ filtered.sessions = response.sessions
    /\ Len(response.events) = 2
    /\ Len(filtered.events) = 1
    /\ \E i \in DOMAIN response.events : response.events[i] = EvOrphan

(***************************************************************************)
(* Properties of the provider routing of the top-level commands.           *)
(***************************************************************************)
\* the command of the provider the top-level command is to call, if any
RouteOf(a, p) ==
    CASE a.group = "traces" ->
            IF p = "langfuse"
            THEN << [provider |-> "langfuse", command |-> IF a.cmd = "list" THEN "list_traces" ELSE "get_trace"] >>
            ELSE <<>>
      [] a.group = "sessions" /\ a.cmd = "search" ->
            IF p = "aiobs" THEN << [provider |-> "aiobs", command |-> "search_sessions"] >> ELSE <<>>
      [] OTHER ->
            << [provider |-> IF p = "langfuse" THEN "langfuse" ELSE "aiobs",
                command |-> IF a.cmd = "list" THEN "list_sessions" ELSE "get_session"] >>

\* C30: for every provider value, a top-level command calls at most one
\* provider command: traces list/get only that of Langfuse and only when the
\* provider is langfuse, sessions search only that of AIOBS and only when the
\* provider is aiobs, and in every other case they exit with code 1 with no
\* client created and nothing fetched; sessions list/get call the Langfuse
\* command when the provider is langfuse and the AIOBS command for every other
\* value.
C30_OneProviderCommand ==
    cpc \notin {"idle", "route"} =>
        /\ Len(delegated) <= 1
        /\ [i \in DOMAIN delegated |-> [provider |-> delegated[i].provider, command |-> delegated[i].command]]
              = RouteOf(args, default_provider)
        /\ RouteOf(args, default_provider) = <<>> =>
              /\ cpc = "exit"
              /\ exit_code = Num(1)
              /\ client = "none"
              /\ fetches = 0
              /\ fetched = None

\* sessions search has ended with exit code 1 for the provider value Langfuse:
\* no provider command was called, no client created, nothing fetched
C30_Witness ==
    /\ cpc = "exit"
    /\ default_provider = "Langfuse"
    /\ args.group = "sessions"
    /\ args.cmd = "search"
    /\ delegated = <<>>
    /\ exit_code = Num(1)
    /\ client = "none"
    /\ fetches = 0

====
